---- MODULE Spec2Model ----
(***************************************************************************)
(* Retrieval-augmented chat assistant (superluminal-jp/ainp).              *)
(*                                                                         *)
(* Three state machines share this module:                                 *)
(*   SpecIngest  - the embed-files handler: load_or_create_faiss_index,    *)
(*                 get_embeddings, index.add, save_faiss_index, run by     *)
(*                 several ingestions against one collection in S3.        *)
(*   SpecEmbed   - get_embeddings of the three handlers as a function.     *)
(*   SpecSearch  - search_relevant_documents of the two chat handlers.     *)
(*                                                                         *)
(* A vector is [dim, zero]: its number of components and whether it is the *)
(* zero fallback. An index is [metric, d, rows]; a row of the ingestion    *)
(* model is the id of the ingestion that added it, and a metadata entry is *)
(* the id of the ingestion that appended it.                               *)
(***************************************************************************)
EXTENDS Integers, Sequences, FiniteSets, TLC

\* ---------------------------------------------------------------- bounds
NumIngest == 3
NumWriters == 2
MaxChunks == 2
MaxTexts == 2
MaxTextChars == 1
MaxRows == 2
MaxIds == 2
MaxTopK == 2

MaxSplitLen == 23

MaxChunkSize == 12

MaxSpaces == 2

MaxDocs == 9

MaxTools == 3

MaxDeps == 2

MaxInvocations == 2

MaxSeconds == 2

MaxDays == 2

MaxRequests == 3

MaxTokens == 2

MaxIdLen == 3

MaxCollections == 2

\* ------------------------------------------------------ program constants
EMBEDDING_DIMENSION == 1536

\* chat-bedrock-tools: the daily limits when the environment sets none
DEFAULT_DAILY_TOKEN_LIMIT == 50000

DEFAULT_DAILY_REQUEST_LIMIT == 100

MaxTextLen == 8000

\* build_rag_context: the budget of the context and of one document
max_total_length == 4000

max_chunk_length == 500

\* len("The following information is from related documents:\n")
LeadInLen == 53

\* len("...")
EllipsisLen == 3

Ingestions == 1..NumIngest

VARIABLES
  storeIndex,      \* S3 object {prefix}/{id}/index.faiss: <<>> absent, <<index>> present
  storeMeta,       \* S3 object {prefix}/{id}/metadata.pkl: <<>> absent, <<list>> present
  pc,              \* position of each ingestion in handler
  nChunks,         \* len(chunks) of each ingestion
  memIndex,        \* the handler's local `index`
  memMeta,         \* the handler's local `existing_metadata`
  raisedAt,        \* history: the stage whose exception the handler re-raised
  loadFault,       \* history: load_or_create_faiss_index took its except branch
  uploadFailed,    \* history: ingestions one of whose upload_file calls failed
  loadedAtPersist, \* history: ingestions that had loaded when this one began to persist
  persistRace,     \* history: pairs of ingestions whose persists overlapped
  embTexts,        \* get_embeddings: the argument `texts`
  embResponses,    \* get_embeddings: what the model call gives for each text
  embVariant,      \* get_embeddings: the handler whose copy is called
  embOut,          \* get_embeddings: the outcome of the call
  sQuery,          \* search_relevant_documents: query_text
  sIds,            \* search_relevant_documents: database_ids
  sTopK,           \* search_relevant_documents: top_k
  sResponse,       \* what the model call gives for the query
  sCatalog,        \* the collections in the store, by id
  sVariant,        \* the chat handler whose copy is called
  sOut             \* search_relevant_documents: the outcome of the call

ingestVars == <<storeIndex, storeMeta, pc, nChunks, memIndex, memMeta, raisedAt,
                loadFault, uploadFailed, loadedAtPersist, persistRace>>

embedVars == <<embTexts, embResponses, embVariant, embOut>>

searchVars == <<sQuery, sIds, sTopK, sResponse, sCatalog, sVariant, sOut>>

VARIABLES
  spText,          \* split_text: the argument `text`
  spSize,          \* split_text: the argument `chunk_size`
  spOverlap,       \* split_text: the argument `chunk_overlap`
  spPc,            \* split_text: "idle", "loop" (in the while), "filter", "done"
  spStart,         \* split_text: the local `start`
  spChunks,        \* split_text: the local `chunks`, at the end the returned list
  spWindows        \* history: the [start, stop) slice appended by each iteration

splitVars == <<spText, spSize, spOverlap, spPc, spStart, spChunks, spWindows>>

VARIABLES
  ctxDocs,         \* build_rag_context: the argument `relevant_docs`
  ctxVariant,      \* which copy of build_rag_context is called
  ctxOut,          \* build_rag_context: the returned string
  ctxPrompt        \* handler: `enhanced_system_prompt`

ctxVars == <<ctxDocs, ctxVariant, ctxOut, ctxPrompt>>

VARIABLES
  tsStore,         \* load_tools_from_dynamodb: the items of the toolspecs table
  tsSelected,      \* load_tools_from_dynamodb: the argument `selected_tool_ids`
  tsOut            \* load_tools_from_dynamodb: the returned tools

toolListVars == <<tsStore, tsSelected, tsOut>>

VARIABLES
  tInv,            \* sandbox: number of the invocation the process is serving
  tVariant,        \* sandbox: the entry point of the process
  tTool,           \* sandbox: the code of the tool invoked
  tCodeFound,      \* sandbox: whether the code of the tool can be fetched
  tDeps,           \* sandbox: the dependency lines of the tool
  tPc,             \* sandbox: the stage the invocation is about to run
  tStages,         \* history: the stages the invocation has run
  tAttempted,      \* history: the packages pip was run for in this invocation
  tInstallOk,      \* history: what the install function returned
  tCalls,          \* history: the calls made into the tool's code
  tFault,          \* history: the tool's code raised in this invocation
  tRaw,            \* sandbox: the value the tool's code gave
  tOut,            \* sandbox: what the entry point returned
  tPkgDir,         \* the package directory: for each package the invocation that installed it
  tSysPath         \* whether the package directory is on sys.path

sandboxVars == <<tInv, tVariant, tTool, tCodeFound, tDeps, tPc, tStages, tAttempted,
                 tInstallOk, tCalls, tFault, tRaw, tOut, tPkgDir, tSysPath>>

VARIABLES
  uClock,          \* usage: int(datetime.now().timestamp()), the current second
  uDay,            \* usage: get_current_period(), the current day
  uTable,          \* usage: the items of user_usage_table, by id
  uServed,         \* history: the requests recorded, each with user, day and tokens
  uUsage           \* usage: what the last check_user_usage_limits read

usageVars == <<uClock, uDay, uTable, uServed, uUsage>>

VARIABLES
  kStore,          \* blob keys: the objects of the bucket, each key with the id it was saved for
  kLoad            \* blob keys: what the last load_faiss_index of a chat handler found

keyVars == <<kStore, kLoad>>

restVars == <<splitVars, ctxVars, toolListVars, sandboxVars, usageVars, keyVars>>

outsideSplit == <<ingestVars, embedVars, searchVars, ctxVars, toolListVars, sandboxVars,
  usageVars, keyVars>>

outsideCtx == <<ingestVars, embedVars, searchVars, splitVars, toolListVars, sandboxVars,
  usageVars, keyVars>>

outsideToolList == <<ingestVars, embedVars, searchVars, splitVars, ctxVars, sandboxVars,
  usageVars, keyVars>>

outsideSandbox == <<ingestVars, embedVars, searchVars, splitVars, ctxVars, toolListVars,
  usageVars, keyVars>>

outsideUsage == <<ingestVars, embedVars, searchVars, splitVars, ctxVars, toolListVars,
                  sandboxVars, keyVars>>

outsideKeys == <<ingestVars, embedVars, searchVars, splitVars, ctxVars, toolListVars,
                 sandboxVars, usageVars>>

vars == <<ingestVars, embedVars, searchVars, restVars>>

\* ------------------------------------------------------------- vectors
ZeroVector == [dim |-> EMBEDDING_DIMENSION, zero |-> TRUE]

ModelVector(n) == [dim |-> n, zero |-> FALSE]

\* What bedrock_client.invoke_model + json.loads + .get("embedding", []) can give:
\* an exception, a D-length embedding, no embedding ([]), an embedding of another length.
ModelResponses ==
  { [raises |-> TRUE,  embedding |-> ModelVector(0)],
    [raises |-> FALSE, embedding |-> ModelVector(EMBEDDING_DIMENSION)],
    [raises |-> FALSE, embedding |-> ModelVector(0)],
    [raises |-> FALSE, embedding |-> ModelVector(EMBEDDING_DIMENSION - 1)] }

\* embed-files get_embeddings: one model call per text, the response's embedding is
\* appended as it is; only an exception gives the zero vector.
ingest_embed_one(resp) ==
  IF resp.raises THEN ZeroVector ELSE resp.embedding

\* embed-files get_embeddings, lines 31-58: no check of the list, of the text or
\* of the embedding; every text is sent to the model as it is.
get_embeddings_ingest(texts, responses) ==
  [raised |-> FALSE,
   vectors |-> [i \in 1..Len(texts) |-> ingest_embed_one(responses[i])],
   sent |-> [i \in 1..Len(texts) |-> texts[i].s]]

\* ---------------------------------------------------------------- texts
\* A text is [isStr, s]: a Python value that is a str (s: its characters) or not.
NoneText == [isStr |-> FALSE, s |-> <<>>]

Str(chars) == [isStr |-> TRUE, s |-> chars]

IsSpace(c) == c = " "

RECURSIVE LStrip(_)
LStrip(s) == IF s # <<>> /\ IsSpace(Head(s)) THEN LStrip(Tail(s)) ELSE s

RECURSIVE RStrip(_)
RStrip(s) ==
  IF s # <<>> /\ IsSpace(s[Len(s)]) THEN RStrip(SubSeq(s, 1, Len(s) - 1)) ELSE s

\* str.strip()
Strip(s) == RStrip(LStrip(s))

\* text[:8000]
Truncate(s) == IF Len(s) > MaxTextLen THEN SubSeq(s, 1, MaxTextLen) ELSE s

\* chat-bedrock get_embeddings, lines 64-108, for one text: a text that is no str
\* or is blank gets the zero vector without a model call; an exception, an empty
\* embedding or one of another length gets the zero vector too.
chat_embed_one(text, resp) ==
  IF ~text.isStr \/ Strip(text.s) = <<>>
  THEN [vector |-> ZeroVector, sent |-> <<>>]
  ELSE [vector |-> IF resp.raises THEN ZeroVector
                   ELSE IF resp.embedding.dim # 0
                           /\ resp.embedding.dim = EMBEDDING_DIMENSION
                        THEN resp.embedding
                        ELSE ZeroVector,
        sent |-> <<Truncate(text.s)>>]

RECURSIVE Concat(_)
Concat(seqs) == IF seqs = <<>> THEN <<>> ELSE Head(seqs) \o Concat(Tail(seqs))

\* chat-bedrock get_embeddings, lines 57-111. `sent`: the inputText of every
\* model call, in order.
get_embeddings_chat(texts, responses) ==
  IF texts = <<>>
  THEN [raised |-> TRUE, vectors |-> <<>>, sent |-> <<>>]
  ELSE [raised |-> FALSE,
        vectors |-> [i \in 1..Len(texts) |-> chat_embed_one(texts[i], responses[i]).vector],
        sent |-> Concat([i \in 1..Len(texts) |->
                           chat_embed_one(texts[i], responses[i]).sent])]

\* chat-bedrock-tools get_embeddings, lines 63-84, for one text.
tools_embed_one(text, resp) ==
  IF ~text.isStr \/ Strip(text.s) = <<>>
  THEN [vector |-> ZeroVector, sent |-> <<>>]
  ELSE [vector |-> IF resp.raises THEN ZeroVector
                   ELSE IF resp.embedding.dim # 0
                           /\ resp.embedding.dim = EMBEDDING_DIMENSION
                        THEN resp.embedding
                        ELSE ZeroVector,
        sent |-> <<Truncate(text.s)>>]

\* chat-bedrock-tools get_embeddings, lines 57-86.
get_embeddings_tools(texts, responses) ==
  IF texts = <<>>
  THEN [raised |-> TRUE, vectors |-> <<>>, sent |-> <<>>]
  ELSE [raised |-> FALSE,
        vectors |-> [i \in 1..Len(texts) |-> tools_embed_one(texts[i], responses[i]).vector],
        sent |-> Concat([i \in 1..Len(texts) |->
                           tools_embed_one(texts[i], responses[i]).sent])]

\* ------------------------------------------------------------- the index
IndexFlatL2(d) == [metric |-> "L2", d |-> d, rows |-> <<>>]

\* np.array(embeddings, dtype=float32) raises on a ragged list, index.add on a
\* rectangular array whose width is not index.d; otherwise one row per vector.
IndexAdd(index, vectors, w) ==
  IF \E i \in 1..Len(vectors) : vectors[i].dim # index.d
  THEN [raised |-> TRUE, index |-> index]
  ELSE [raised |-> FALSE,
        index |-> [index EXCEPT !.rows = @ \o [i \in 1..Len(vectors) |-> w]]]

\* existing_metadata.extend(chunk_metadata)
MetaExtend(metadata, n, w) == metadata \o [i \in 1..n |-> w]

\* A failed load that keeps the index it had already read.
LoadFailedKeepsIndex(partialIndex) ==
  [raised |-> FALSE, index |-> partialIndex, metadata |-> <<>>]

\* load_or_create_faiss_index, except branch: a new index and an empty list,
\* whatever had been read before the failure.
LoadFailed(partialIndex) ==
  [raised |-> FALSE, index |-> IndexFlatL2(EMBEDDING_DIMENSION), metadata |-> <<>>]

\* s3_client.upload_file of index.faiss: the object is replaced whole.
UploadIndexBlob(old, new) == <<new>>

\* An upload that appends to the stored list instead of replacing the object.
UploadMetaAppending(old, new) == IF old = <<>> THEN <<new>> ELSE <<old[1] \o new>>

\* s3_client.upload_file of metadata.pkl: the object is replaced whole.
UploadMetaBlob(old, new) == <<new>>

\* A save_faiss_index that logs the exception and returns.
SaveSwallowsError(uploadOk) == [raised |-> FALSE]

\* save_faiss_index, try/except around both uploads: log and re-raise.
SaveAfterUpload(uploadOk) == [raised |-> ~uploadOk]

\* handler, lines 308-347: an exception of index.add or save_faiss_index is
\* re-raised by the inner except and wrapped and raised by the outer one.
HandlerAfter(raised, next) == IF raised THEN "raised" ELSE next

\* The locals of an invocation: they are gone once the handler has left.
LocalIndex(position, index) ==
  IF position \in {"raised", "success", "noText"}
  THEN IndexFlatL2(EMBEDDING_DIMENSION) ELSE index

LocalMeta(position, metadata) ==
  IF position \in {"raised", "success", "noText"} THEN <<>> ELSE metadata

\* ------------------------------------------------- the ingestion handler
InFlight(w) == pc[w] \in {"loadIndex", "loadMeta", "append", "uploadIndex", "uploadMeta"}

Finished(w) == pc[w] \in {"success", "noText", "raised"}

\* load_or_create_faiss_index has returned to the handler of w
LoadDone(w) ==
  \/ pc[w] \in {"append", "uploadIndex", "uploadMeta", "success"}
  \/ pc[w] = "raised" /\ raisedAt[w] \in {"append", "persist"}

\* The variables of the machines a specification does not run.
IngestIdle ==
  /\ storeIndex = <<>>
  /\ storeMeta = <<>>
  /\ pc = [w \in Ingestions |-> "idle"]
  /\ nChunks = [w \in Ingestions |-> 0]
  /\ memIndex = [w \in Ingestions |-> IndexFlatL2(EMBEDDING_DIMENSION)]
  /\ memMeta = [w \in Ingestions |-> <<>>]
  /\ raisedAt = [w \in Ingestions |-> "none"]
  /\ loadFault = [w \in Ingestions |-> FALSE]
  /\ uploadFailed = {}
  /\ loadedAtPersist = [w \in Ingestions |-> {}]
  /\ persistRace = {}

NoOutcome == [done |-> FALSE]

EmbedIdle ==
  /\ embTexts = <<>>
  /\ embResponses = <<>>
  /\ embVariant = "chat"
  /\ embOut = NoOutcome

SearchIdle ==
  /\ sQuery = <<>>
  /\ sIds = <<>>
  /\ sTopK = 0
  /\ sResponse = [raises |-> TRUE, embedding |-> ModelVector(0)]
  /\ sCatalog = <<>>
  /\ sVariant = "chat"
  /\ sOut = NoOutcome

SplitIdle ==
  /\ spText = <<>>
  /\ spSize = 1
  /\ spOverlap = 0
  /\ spPc = "idle"
  /\ spStart = 0
  /\ spChunks = <<>>
  /\ spWindows = <<>>

CtxIdle ==
  /\ ctxDocs = <<>>
  /\ ctxVariant = "chat"
  /\ ctxOut = NoOutcome
  /\ ctxPrompt = "unset"

ToolListIdle ==
  /\ tsStore = <<>>
  /\ tsSelected = [given |-> FALSE, ids |-> {}]
  /\ tsOut = NoOutcome

\* The packages a requirements text can name.
Packages == {"p", "q"}

\* The code of a tool: the entry functions it defines, whether its top-level
\* statements raise, and for a script without entry function whether the
\* top-level statements read the input fields and whether they set `result`.
NoTool == [defines |-> {}, loadFault |-> FALSE, needsInputs |-> FALSE, setsResult |-> FALSE]

NoBody == [kind |-> "none", success |-> "absent", json |-> "none"]

NoValue == [kind |-> "none", success |-> "absent", status |-> 0, body |-> NoBody]

SandboxIdle ==
  /\ tInv = 0
  /\ tVariant = "tools"
  /\ tTool = NoTool
  /\ tCodeFound = FALSE
  /\ tDeps = <<>>
  /\ tPc = "idle"
  /\ tStages = <<>>
  /\ tAttempted = <<>>
  /\ tInstallOk = TRUE
  /\ tCalls = <<>>
  /\ tFault = FALSE
  /\ tRaw = NoValue
  /\ tOut = NoOutcome
  /\ tPkgDir = [p \in Packages |-> 0]
  /\ tSysPath = FALSE

Users == {"u1", "u2"}

NoUsage == [done |-> FALSE, user |-> "u1", day |-> 1, after |-> 0,
            totalTokens |-> 0, totalRequests |-> 0, allowed |-> TRUE]

UsageIdle ==
  /\ uClock = 0
  /\ uDay = 1
  /\ uTable = <<>>
  /\ uServed = <<>>
  /\ uUsage = NoUsage

NoLoad == [done |-> FALSE, variant |-> "chat", id |-> <<>>, found |-> FALSE,
           indexOf |-> <<>>, metaOf |-> <<>>]

KeysIdle ==
  /\ kStore = <<>>
  /\ kLoad = NoLoad

RestIdle ==
  /\ KeysIdle
  /\ SplitIdle
  /\ CtxIdle
  /\ ToolListIdle
  /\ SandboxIdle
  /\ UsageIdle

InitIngest ==
  /\ EmbedIdle
  /\ SearchIdle
  /\ RestIdle
  /\ storeIndex = <<>>
  /\ storeMeta = <<>>
  /\ pc = [w \in Ingestions |-> "idle"]
  /\ nChunks = [w \in Ingestions |-> 0]
  /\ memIndex = [w \in Ingestions |-> IndexFlatL2(EMBEDDING_DIMENSION)]
  /\ memMeta = [w \in Ingestions |-> <<>>]
  /\ raisedAt = [w \in Ingestions |-> "none"]
  /\ loadFault = [w \in Ingestions |-> FALSE]
  /\ uploadFailed = {}
  /\ loadedAtPersist = [w \in Ingestions |-> {}]
  /\ persistRace = {}

\* handler, lines 233-284: arguments, file download, text extraction, split_text.
\* Ingestions are numbered in the order in which they start.
\* argsOk = FALSE: a missing argument or a failed download raises; k = 0: no text
\* was extracted and the handler returns success = False; else k chunks.
Start(w) ==
  /\ UNCHANGED <<embedVars, searchVars, restVars>>
  /\ pc[w] = "idle"
  /\ \A v \in Ingestions : v < w => pc[v] # "idle"
  /\ \E argsOk \in BOOLEAN, k \in 0..MaxChunks :
       /\ pc' = [pc EXCEPT ![w] = IF ~argsOk THEN "raised"
                                  ELSE IF k = 0 THEN "noText" ELSE "loadIndex"]
       /\ raisedAt' = [raisedAt EXCEPT ![w] = IF ~argsOk THEN "start" ELSE @]
       /\ nChunks' = [nChunks EXCEPT ![w] = IF argsOk THEN k ELSE 0]
  /\ UNCHANGED <<storeIndex, storeMeta, memIndex, memMeta, loadFault, uploadFailed,
                 loadedAtPersist, persistRace>>

\* The handler continues after load_or_create_faiss_index returned `ret`.
AfterLoad(w, ret, faulted) ==
  /\ memIndex' = [memIndex EXCEPT ![w] = ret.index]
  /\ memMeta' = [memMeta EXCEPT ![w] = ret.metadata]
  /\ loadFault' = [loadFault EXCEPT ![w] = faulted]
  /\ pc' = [pc EXCEPT ![w] = HandlerAfter(ret.raised, "append")]
  /\ raisedAt' = [raisedAt EXCEPT ![w] = IF ret.raised THEN "load" ELSE @]

\* load_or_create_faiss_index, lines 159-163: download and read the index blob.
\* fault: the download or faiss.read_index fails although the object exists.
LoadIndex(w) ==
  /\ UNCHANGED <<embedVars, searchVars, restVars>>
  /\ pc[w] = "loadIndex"
  /\ \E fault \in BOOLEAN :
       IF storeIndex = <<>> \/ fault
       THEN AfterLoad(w, LoadFailed(memIndex[w]), TRUE)
       ELSE /\ memIndex' = [memIndex EXCEPT ![w] = storeIndex[1]]
            /\ pc' = [pc EXCEPT ![w] = "loadMeta"]
            /\ UNCHANGED <<memMeta, loadFault, raisedAt>>
  /\ UNCHANGED <<storeIndex, storeMeta, nChunks, uploadFailed, loadedAtPersist,
                 persistRace>>

\* load_or_create_faiss_index, lines 166-177: download and unpickle the metadata.
LoadMeta(w) ==
  /\ UNCHANGED <<embedVars, searchVars, restVars>>
  /\ pc[w] = "loadMeta"
  /\ \E fault \in BOOLEAN :
       IF storeMeta = <<>> \/ fault
       THEN AfterLoad(w, LoadFailed(memIndex[w]), TRUE)
       ELSE AfterLoad(w, [raised |-> FALSE, index |-> memIndex[w],
                          metadata |-> storeMeta[1]], FALSE)
  /\ UNCHANGED <<storeIndex, storeMeta, nChunks, uploadFailed, loadedAtPersist,
                 persistRace>>

\* handler, lines 289-317: get_embeddings(chunks), the chunk metadata, index.add
\* and existing_metadata.extend, all local to the invocation.
AppendChunks(w) ==
  /\ UNCHANGED <<embedVars, searchVars, restVars>>
  /\ pc[w] = "append"
  /\ \E responses \in [1..nChunks[w] -> ModelResponses] :
       LET chunks == [i \in 1..nChunks[w] |-> Str(<<"x">>)]
           emb == get_embeddings_ingest(chunks, responses)
           added == IndexAdd(memIndex[w], emb.vectors, w)
       IN /\ pc' = [pc EXCEPT ![w] = HandlerAfter(added.raised, "uploadIndex")]
          /\ memIndex' = [memIndex EXCEPT ![w] = LocalIndex(pc'[w], added.index)]
          /\ memMeta' = [memMeta EXCEPT ![w] =
                           LocalMeta(pc'[w], MetaExtend(@, nChunks[w], w))]
          /\ raisedAt' = [raisedAt EXCEPT ![w] = IF added.raised THEN "append" ELSE @]
  /\ UNCHANGED <<storeIndex, storeMeta, nChunks, loadFault, uploadFailed,
                 loadedAtPersist, persistRace>>

\* save_faiss_index, lines 197-202: write_index and the upload of the index blob.
UploadIndex(w) ==
  /\ UNCHANGED <<embedVars, searchVars, restVars>>
  /\ pc[w] = "uploadIndex"
  /\ \E ok \in BOOLEAN :
       LET ret == SaveAfterUpload(ok)
       IN /\ storeIndex' = IF ok THEN UploadIndexBlob(storeIndex, memIndex[w]) ELSE storeIndex
          /\ uploadFailed' = IF ok THEN uploadFailed ELSE uploadFailed \cup {w}
          /\ pc' = [pc EXCEPT ![w] = HandlerAfter(ret.raised, "uploadMeta")]
          /\ memIndex' = [memIndex EXCEPT ![w] = LocalIndex(pc'[w], @)]
          /\ memMeta' = [memMeta EXCEPT ![w] = LocalMeta(pc'[w], @)]
          /\ raisedAt' = [raisedAt EXCEPT ![w] = IF ret.raised THEN "persist" ELSE @]
  /\ loadedAtPersist' = [loadedAtPersist EXCEPT ![w] =
                           {v \in Ingestions \ {w} : LoadDone(v)}]
  /\ persistRace' = persistRace \cup
                      {{w, v} : v \in {x \in Ingestions \ {w} : pc[x] = "uploadMeta"}}
  /\ UNCHANGED <<storeMeta, nChunks, loadFault>>

\* save_faiss_index, lines 205-215, and the handler's return, lines 322-343.
UploadMeta(w) ==
  /\ UNCHANGED <<embedVars, searchVars, restVars>>
  /\ pc[w] = "uploadMeta"
  /\ \E ok \in BOOLEAN :
       LET ret == SaveAfterUpload(ok)
       IN /\ storeMeta' = IF ok THEN UploadMetaBlob(storeMeta, memMeta[w]) ELSE storeMeta
          /\ uploadFailed' = IF ok THEN uploadFailed ELSE uploadFailed \cup {w}
          /\ pc' = [pc EXCEPT ![w] = HandlerAfter(ret.raised, "success")]
          /\ memIndex' = [memIndex EXCEPT ![w] = LocalIndex(pc'[w], @)]
          /\ memMeta' = [memMeta EXCEPT ![w] = LocalMeta(pc'[w], @)]
          /\ raisedAt' = [raisedAt EXCEPT ![w] = IF ret.raised THEN "persist" ELSE @]
  /\ UNCHANGED <<storeIndex, nChunks, loadFault, loadedAtPersist, persistRace>>

\* Ingestions that may overlap: the first NumWriters invocations, in any interleaving.
StartRacing(w) == w <= NumWriters /\ Start(w)

NextIngest ==
  \E w \in Ingestions :
    \/ StartRacing(w)
    \/ LoadIndex(w)
    \/ LoadMeta(w)
    \/ AppendChunks(w)
    \/ UploadIndex(w)
    \/ UploadMeta(w)

SpecIngest == InitIngest /\ [][NextIngest]_vars

Quiescent == \A w \in Ingestions : ~InFlight(w)

\* Ingestions that never overlap: an invocation starts when no other is in flight.
StartSerial(w) == Quiescent /\ Start(w)

NextIngestSerial ==
  \E w \in Ingestions :
    \/ StartSerial(w)
    \/ LoadIndex(w)
    \/ LoadMeta(w)
    \/ AppendChunks(w)
    \/ UploadIndex(w)
    \/ UploadMeta(w)

SpecIngestSerial == InitIngest /\ [][NextIngestSerial]_vars

\* ------------------------------------------------ claims on the ingestion
StoredVectorCount == IF storeIndex = <<>> THEN 0 ELSE Len(storeIndex[1].rows)

StoredMetaCount == IF storeMeta = <<>> THEN 0 ELSE Len(storeMeta[1])

StoredParity ==
  storeIndex # <<>> /\ storeMeta # <<>> /\ StoredMetaCount = StoredVectorCount

\* Every blob an ingestion uploads ends with its own rows, so the last row names
\* the ingestion that wrote the stored blob (0: no blob).
LastOf(seq) == IF seq = <<>> THEN 0 ELSE seq[Len(seq)]

IndexWriter == IF storeIndex = <<>> THEN 0 ELSE LastOf(storeIndex[1].rows)

MetaWriter == IF storeMeta = <<>> THEN 0 ELSE LastOf(storeMeta[1])

HasVectorsOf(w) ==
  storeIndex # <<>> /\ \E i \in 1..Len(storeIndex[1].rows) : storeIndex[1].rows[i] = w

HasChunksOf(w) ==
  storeMeta # <<>> /\ \E i \in 1..Len(storeMeta[1]) : storeMeta[1][i] = w

\* The ingestion that started last (0: none has started).
LastStarted ==
  IF \A w \in Ingestions : pc[w] = "idle" THEN 0
  ELSE CHOOSE w \in Ingestions :
         pc[w] # "idle" /\ \A v \in Ingestions : pc[v] # "idle" => v <= w

\* C1: for ingestions of one collection that never overlap and start from an absent
\* collection, after every ingestion whose persist succeeded the stored metadata
\* list has as many entries as the stored index has vectors.
C1_ParityAfterEverySuccessfulPersist ==
  (LastStarted \in Ingestions /\ pc[LastStarted] = "success") => StoredParity

\* Both had returned from load_or_create_faiss_index before either began to persist.
BothLoadedBeforeEitherPersisted(a, b) ==
  b \in loadedAtPersist[a] /\ a \in loadedAtPersist[b]

\* C2: when two ingestions of one collection both loaded before either persisted
\* and both returned success, the stored collection lacks the chunks of one of
\* them (in the metadata list and in the index alike).
C2_OverlappingIngestionsLoseAnUpdate ==
  \A a, b \in Ingestions :
    (/\ a # b
     /\ BothLoadedBeforeEitherPersisted(a, b)
     /\ pc[a] = "success"
     /\ pc[b] = "success")
    => /\ ~(HasChunksOf(a) /\ HasChunksOf(b))
       /\ ~(HasVectorsOf(a) /\ HasVectorsOf(b))

\* Two overlapping ingestions have both returned success and one's chunks are gone.
C2_Witness ==
  \E a, b \in Ingestions :
    /\ a # b
    /\ BothLoadedBeforeEitherPersisted(a, b)
    /\ pc[a] = "success"
    /\ pc[b] = "success"
    /\ HasChunksOf(a)
    /\ ~HasChunksOf(b)

\* C3: when two ingestions persist concurrently and both succeed, the stored index
\* blob and the stored metadata blob were written by the same ingestion and the
\* stored pair has equal vector and metadata counts.
C3_LastWriteWinsOnBothBlobsTogether ==
  \A a, b \in Ingestions :
    (/\ a # b
     /\ {a, b} \in persistRace
     /\ pc[a] = "success"
     /\ pc[b] = "success"
     /\ IndexWriter \in {a, b}
     /\ MetaWriter \in {a, b})
    => (IndexWriter = MetaWriter /\ StoredParity)

\* C4: an ingestion one of whose uploads failed never returns success: the
\* exception of save_faiss_index leaves the handler as an exception.
C4_FailedPersistRaises ==
  \A w \in uploadFailed : pc[w] = "raised" /\ raisedAt[w] = "persist"

\* The index upload of w succeeded, its metadata upload failed, and w raised.
C4_Witness ==
  \E w \in uploadFailed :
    /\ pc[w] = "raised"
    /\ IndexWriter = w
    /\ MetaWriter # w

\* C5: load_or_create_faiss_index never raises; when the fetch or the read of
\* either blob fails it returns an empty L2 index of dimension D and an empty list.
C5_LoadOrCreateFallsBackToEmpty ==
  \A w \in Ingestions :
    /\ raisedAt[w] # "load"
    /\ (loadFault[w] /\ pc[w] = "append") =>
         /\ memIndex[w] = [metric |-> "L2", d |-> EMBEDDING_DIMENSION, rows |-> <<>>]
         /\ memMeta[w] = <<>>

\* A load failed on the metadata blob of a collection whose index blob holds rows.
C5_Witness ==
  \E w \in Ingestions :
    /\ loadFault[w]
    /\ pc[w] = "append"
    /\ StoredVectorCount > 0
    /\ IndexWriter # w
    /\ memMeta[w] = <<>>

\* The blobs that hold the chunks of ingestion w and nothing else
OnlyChunksOf(w) ==
  /\ storeIndex = <<[metric |-> "L2", d |-> EMBEDDING_DIMENSION,
                     rows |-> [i \in 1..nChunks[w] |-> w]]>>
  /\ storeMeta = <<[i \in 1..nChunks[w] |-> w]>>

\* C27: an ingestion whose load failed on either blob is not ended by that
\* failure; it goes on with a new empty pair, and when it returns success both
\* stored blobs hold the chunks of its own file and nothing else.
C27_FailedLoadOverwritesCollection ==
  \A w \in Ingestions :
    /\ loadFault[w] => raisedAt[w] # "load"
    /\ (loadFault[w] /\ pc[w] = "success" /\ LastStarted = w) => OnlyChunksOf(w)

\* The ingestion before w had stored its chunks with success; the load of w
\* failed on that collection, w returned success and those chunks are gone.
C27_Witness ==
  \E w \in Ingestions :
    /\ w > 1
    /\ pc[w - 1] = "success"
    /\ nChunks[w - 1] > 0
    /\ loadFault[w]
    /\ pc[w] = "success"
    /\ LastStarted = w
    /\ ~HasChunksOf(w - 1)
    /\ ~HasVectorsOf(w - 1)

\* The stored index blob is the one ingestion w uploaded and the stored
\* metadata blob is not: it is the one from before, or there is none.
NewIndexOldMeta(w) == IndexWriter = w /\ MetaWriter # w

\* C28: persist writes the index blob before the metadata blob and is not
\* atomic: between the two uploads, and after a persist that raised because the
\* metadata upload failed, the store holds the new index blob next to the old
\* metadata blob, a pair whose counts differ.
C28_PersistIsNotAtomic ==
  \A w \in Ingestions :
    /\ pc[w] = "uploadMeta" =>
         (NewIndexOldMeta(w) /\ StoredVectorCount # StoredMetaCount)
    /\ (w \in uploadFailed /\ IndexWriter = w) =>
         /\ pc[w] = "raised"
         /\ raisedAt[w] = "persist"
         /\ NewIndexOldMeta(w)
         /\ StoredVectorCount # StoredMetaCount

\* C28 as amended: the same, with the counts said to differ only for an
\* ingestion whose load had succeeded on a pair of equal counts.
C28_NotAtomicCountsDifferAfterGoodLoad ==
  \A w \in Ingestions :
    /\ pc[w] = "uploadMeta" =>
         /\ NewIndexOldMeta(w)
         /\ (~loadFault[w] /\ Len(memIndex[w].rows) = Len(memMeta[w])) =>
              StoredVectorCount # StoredMetaCount
    /\ (w \in uploadFailed /\ IndexWriter = w) =>
         /\ pc[w] = "raised"
         /\ raisedAt[w] = "persist"
         /\ NewIndexOldMeta(w)

\* The index upload of w replaced an index that held rows, its metadata
\* upload failed, and w raised with the old metadata still stored.
C28_Witness ==
  \E w \in uploadFailed :
    /\ pc[w] = "raised"
    /\ raisedAt[w] = "persist"
    /\ IndexWriter = w
    /\ storeMeta # <<>>
    /\ MetaWriter \in Ingestions \ {w}
    /\ StoredVectorCount > StoredMetaCount

\* ------------------------------------------------------- get_embeddings
Chars == {" ", "x"}

SeqsUpTo(S, n) == UNION {[1..k -> S] : k \in 0..n}

\* None, and every string of at most MaxTextChars characters
TextValues == {NoneText} \cup {Str(s) : s \in SeqsUpTo(Chars, MaxTextChars)}

EmbedVariants == {"chat", "tools", "ingest"}

get_embeddings(variant, texts, responses) ==
  CASE variant = "chat" -> get_embeddings_chat(texts, responses)
    [] variant = "tools" -> get_embeddings_tools(texts, responses)
    [] variant = "ingest" -> get_embeddings_ingest(texts, responses)

InitEmbed ==
  /\ IngestIdle
  /\ SearchIdle
  /\ RestIdle
  /\ embTexts \in SeqsUpTo(TextValues, MaxTexts)
  /\ embResponses \in [1..Len(embTexts) -> ModelResponses]
  /\ embVariant \in EmbedVariants
  /\ embOut = NoOutcome

CallGetEmbeddings ==
  /\ ~embOut.done
  /\ embOut' = [done |-> TRUE] @@ get_embeddings(embVariant, embTexts, embResponses)
  /\ UNCHANGED <<embTexts, embResponses, embVariant, ingestVars, searchVars, restVars>>

NextEmbed == CallGetEmbeddings

SpecEmbed == InitEmbed /\ [][NextEmbed]_vars

\* C9: for every non-empty list of texts, get_embeddings of every handler returns
\* one vector per text, in the order of the texts, each of exactly D components,
\* also where the model call failed or gave no embedding or one of another length.
C9_EveryVectorHasDimensionD ==
  (embOut.done /\ embTexts # <<>>) =>
    /\ ~embOut.raised
    /\ Len(embOut.vectors) = Len(embTexts)
    /\ \A i \in 1..Len(embTexts) :
         /\ embOut.vectors[i].dim = EMBEDDING_DIMENSION
         /\ (/\ embTexts[i].isStr
             /\ Strip(embTexts[i].s) # <<>>
             /\ ~embResponses[i].raises
             /\ embResponses[i].embedding.dim = EMBEDDING_DIMENSION)
            => embOut.vectors[i] = embResponses[i].embedding

\* C10: get_embeddings([]) fails with an input error; get_embeddings([""]) does
\* not fail and returns exactly one vector of D zeros without calling the model.
C10_EmptyListFailsEmptyTextIsZero ==
  embOut.done =>
    /\ embTexts = <<>> => embOut.raised
    /\ embTexts = <<Str(<<>>)>> =>
         /\ ~embOut.raised
         /\ embOut.vectors = <<ZeroVector>>
         /\ embOut.sent = <<>>

\* -------------------------------------------- search_relevant_documents
\* A stored collection is [kind, dists, metaLen]. kind: "absent" (no blobs),
\* "unreadable" (a blob that cannot be read), "faulty" (index.search raises) or
\* "ok". dists[r + 1] is the L2 distance of row r to the query vector of the run;
\* metaLen is len(metadata).
Distances == {1, 2}

NonStrId == "<non-str>"

CollIds == {"a", "b"}

IdValues == CollIds \cup {"", NonStrId}

\* `not database_id or not isinstance(database_id, str)`
InvalidId(id) == id = "" \/ id = NonStrId

Min(a, b) == IF a < b THEN a ELSE b

Take(seq, n) == SubSeq(seq, 1, Min(n, Len(seq)))

\* list.sort(key=lambda x: x["distance"]): stable, ascending.
RECURSIVE InsertByDistance(_, _)
InsertByDistance(sorted, x) ==
  IF sorted = <<>> THEN <<x>>
  ELSE IF x.distance < Head(sorted).distance THEN <<x>> \o sorted
  ELSE <<Head(sorted)>> \o InsertByDistance(Tail(sorted), x)

RECURSIVE SortByDistance(_)
SortByDistance(seq) ==
  IF seq = <<>> THEN <<>>
  ELSE InsertByDistance(SortByDistance(SubSeq(seq, 1, Len(seq) - 1)), seq[Len(seq)])

\* A sort that puts an element before the elements of equal distance.
RECURSIVE InsertBeforeEqual(_, _)
InsertBeforeEqual(sorted, x) ==
  IF sorted = <<>> THEN <<x>>
  ELSE IF x.distance <= Head(sorted).distance THEN <<x>> \o sorted
  ELSE <<Head(sorted)>> \o InsertBeforeEqual(Tail(sorted), x)

RECURSIVE SortTiesReversed(_)
SortTiesReversed(seq) ==
  IF seq = <<>> THEN <<>>
  ELSE InsertBeforeEqual(SortTiesReversed(SubSeq(seq, 1, Len(seq) - 1)), seq[Len(seq)])

\* A sort that was left out.
Unsorted(seq) == seq

\* all_results.sort(key=lambda x: x["distance"])
SortResults(seq) == SortByDistance(seq)

\* A slice that was left out.
Untruncated(seq, n) == seq

\* all_results[:top_k]
Truncated(seq, n) == Take(seq, n)

\* index.search(query_vector, search_k) of a flat L2 index: the search_k nearest
\* rows as (distance, row-id), nearest first, rows numbered from 0.
IndexSearch(dists, k) ==
  Take(SortByDistance([i \in 1..Len(dists) |-> [distance |-> dists[i], row |-> i - 1]]), k)

\* load_faiss_index, both chat handlers: ValueError for an invalid id, None when
\* a blob is missing or cannot be read, else (index, metadata).
load_faiss_index(id, catalog) ==
  IF InvalidId(id) THEN [raised |-> TRUE, found |-> FALSE]
  ELSE IF id \notin DOMAIN catalog \/ catalog[id].kind \in {"absent", "unreadable"}
       THEN [raised |-> FALSE, found |-> FALSE]
       ELSE [raised |-> FALSE, found |-> TRUE]

\* A loop that builds a result from every returned row-id, in range or not.
RowsUnchecked(seq, id, metaLen) ==
  [i \in 1..Len(seq) |->
     [database_id |-> id, distance |-> seq[i].distance, row |-> seq[i].row]]

\* Lines 312-327 (chat) and 157-170 (tools): the loop over zip(distances[0],
\* indices[0]); a row-id with 0 <= idx < len(metadata) becomes a result.
RECURSIVE SelectSeq2(_, _, _)
SelectSeq2(seq, id, metaLen) ==
  IF seq = <<>> THEN <<>>
  ELSE (IF 0 <= Head(seq).row /\ Head(seq).row < metaLen
        THEN <<[database_id |-> id, distance |-> Head(seq).distance,
                row |-> Head(seq).row]>>
        ELSE <<>>) \o SelectSeq2(Tail(seq), id, metaLen)

\* Lines 300-330 (chat) and 153-170 (tools): the body of the loop once the index
\* is loaded. An empty index is skipped; else min(top_k, ntotal) neighbours are
\* requested and the rows with 0 <= idx < len(metadata) become results.
SearchLoaded(id, coll, topK) ==
  IF Len(coll.dists) = 0 THEN [raised |-> FALSE, searched |-> <<>>, results |-> <<>>]
  ELSE IF coll.kind = "faulty" THEN [raised |-> TRUE, searched |-> <<id>>, results |-> <<>>]
  ELSE [raised |-> FALSE, searched |-> <<id>>,
        results |-> SelectSeq2(IndexSearch(coll.dists, Min(topK, Len(coll.dists))),
                               id, coll.metaLen)]

\* An inner except that lets the exception end the whole search.
CollectionErrorAborts(searched) == [abort |-> TRUE, searched |-> searched, results |-> <<>>]

\* `except Exception: ... continue` of the loop over database_ids.
OnCollectionError(searched) == [abort |-> FALSE, searched |-> searched, results |-> <<>>]

\* chat-bedrock, lines 283-335: one iteration of the loop over database_ids.
scan_collection_chat(id, topK, catalog) ==
  IF InvalidId(id) THEN [abort |-> FALSE, searched |-> <<>>, results |-> <<>>]
  ELSE LET loaded == load_faiss_index(id, catalog)
       IN IF loaded.raised THEN OnCollectionError(<<>>)
          ELSE IF ~loaded.found THEN [abort |-> FALSE, searched |-> <<>>, results |-> <<>>]
          ELSE LET r == SearchLoaded(id, catalog[id], topK)
               IN IF r.raised THEN OnCollectionError(r.searched)
                  ELSE [abort |-> FALSE, searched |-> r.searched, results |-> r.results]

\* chat-bedrock-tools, lines 147-172: one iteration; an invalid id makes
\* load_faiss_index raise inside the try.
scan_collection_tools(id, topK, catalog) ==
  LET loaded == load_faiss_index(id, catalog)
  IN IF loaded.raised THEN OnCollectionError(<<>>)
     ELSE IF ~loaded.found THEN [abort |-> FALSE, searched |-> <<>>, results |-> <<>>]
     ELSE LET r == SearchLoaded(id, catalog[id], topK)
          IN IF r.raised THEN OnCollectionError(r.searched)
             ELSE [abort |-> FALSE, searched |-> r.searched, results |-> r.results]

scan_collection(variant, id, topK, catalog) ==
  IF variant = "chat" THEN scan_collection_chat(id, topK, catalog)
  ELSE scan_collection_tools(id, topK, catalog)

\* The loop over database_ids: the pooled results in scan order.
RECURSIVE ScanAll(_, _, _, _)
ScanAll(variant, ids, topK, catalog) ==
  IF ids = <<>> THEN [abort |-> FALSE, searched |-> <<>>, results |-> <<>>]
  ELSE LET first == scan_collection(variant, Head(ids), topK, catalog)
       IN IF first.abort THEN first
          ELSE LET rest == ScanAll(variant, Tail(ids), topK, catalog)
               IN [abort |-> rest.abort,
                   searched |-> first.searched \o rest.searched,
                   results |-> IF rest.abort THEN <<>> ELSE first.results \o rest.results]

Returned(results, searched, queryVector) ==
  [raised |-> FALSE, results |-> results, searched |-> searched,
   queryVector |-> queryVector]

\* chat-bedrock search_relevant_documents, lines 246-360.
search_chat(query, ids, topK, resp, catalog) ==
  IF query = <<>> THEN Returned(<<>>, <<>>, <<>>)
  ELSE IF ids = <<>> THEN Returned(<<>>, <<>>, <<>>)
  ELSE IF topK <= 0 THEN Returned(<<>>, <<>>, <<>>)
  ELSE LET emb == get_embeddings_chat(<<Str(Strip(query))>>, <<resp>>)
       IN IF emb.raised THEN Returned(<<>>, <<>>, <<>>)
          ELSE IF emb.vectors = <<>> \/ emb.vectors[1].dim = 0
               THEN Returned(<<>>, <<>>, emb.vectors)
          ELSE IF emb.vectors[1].dim # EMBEDDING_DIMENSION
               THEN Returned(<<>>, <<>>, emb.vectors)
          ELSE LET scan == ScanAll("chat", ids, topK, catalog)
               IN IF scan.abort THEN Returned(<<>>, scan.searched, emb.vectors)
                  ELSE IF scan.results # <<>>
                       THEN Returned(Truncated(SortResults(scan.results), topK),
                                     scan.searched, emb.vectors)
                       ELSE Returned(<<>>, scan.searched, emb.vectors)

\* chat-bedrock-tools search_relevant_documents, lines 136-178.
search_tools(query, ids, topK, resp, catalog) ==
  IF query = <<>> \/ ids = <<>> \/ topK <= 0 THEN Returned(<<>>, <<>>, <<>>)
  ELSE LET emb == get_embeddings_tools(<<Str(Strip(query))>>, <<resp>>)
       IN IF emb.raised THEN Returned(<<>>, <<>>, <<>>)
          ELSE IF emb.vectors = <<>> \/ emb.vectors[1].dim = 0
               THEN Returned(<<>>, <<>>, emb.vectors)
          ELSE LET scan == ScanAll("tools", ids, topK, catalog)
               IN IF scan.abort THEN Returned(<<>>, scan.searched, emb.vectors)
                  ELSE Returned(Truncated(SortResults(scan.results), topK),
                                scan.searched, emb.vectors)

search_relevant_documents(variant, query, ids, topK, resp, catalog) ==
  IF variant = "chat" THEN search_chat(query, ids, topK, resp, catalog)
  ELSE search_tools(query, ids, topK, resp, catalog)

SearchVariants == {"chat", "tools"}

\* The collections a store can hold: nothing, unreadable blobs, an index whose
\* search raises, or an index of at most MaxRows rows with a metadata list of the
\* same length or one entry short (the desync a failed metadata upload leaves).
Collections ==
  { [kind |-> k, dists |-> <<>>, metaLen |-> 0] : k \in {"absent", "unreadable"} }
  \cup { [kind |-> "faulty", dists |-> <<1>>, metaLen |-> 1] }
  \cup { [kind |-> "ok", dists |-> d, metaLen |-> Len(d) - lag] :
           d \in SeqsUpTo(Distances, MaxRows), lag \in 0..1 }

\* The database_ids lists of the model: at most MaxIds ids, each named once.
IdLists ==
  { l \in SeqsUpTo(IdValues, MaxIds) : \A i, j \in 1..Len(l) : l[i] = l[j] => i = j }

\* The query strings of the model, and what the model call can give for them.
Queries == SeqsUpTo(Chars, 1)

QueryResponses ==
  { r \in ModelResponses : r.raises \/ r.embedding.dim # 0 }

\* The store holds any two collections; no search has been called.
InitSearch ==
  /\ IngestIdle
  /\ EmbedIdle
  /\ RestIdle
  /\ sQuery = <<>>
  /\ sResponse = [raises |-> TRUE, embedding |-> ModelVector(0)]
  /\ sIds = <<>>
  /\ sTopK = 0
  /\ sCatalog \in [CollIds -> {c \in Collections : c.metaLen >= 0}]
  /\ sVariant = "chat"
  /\ sOut = NoOutcome

\* One call of search_relevant_documents, with any arguments; a blank query
\* makes no model call, so no response is drawn for it.
CallSearch ==
  /\ ~sOut.done
  /\ \E variant \in SearchVariants, query \in Queries, ids \in IdLists,
        topK \in 0..MaxTopK :
       \E resp \in IF Strip(query) = <<>>
                    THEN {[raises |-> TRUE, embedding |-> ModelVector(0)]}
                    ELSE QueryResponses :
         /\ sVariant' = variant
         /\ sQuery' = query
         /\ sIds' = ids
         /\ sTopK' = topK
         /\ sResponse' = resp
         /\ sOut' = [done |-> TRUE] @@
                    search_relevant_documents(variant, query, ids, topK, resp, sCatalog)
  /\ UNCHANGED <<sCatalog, ingestVars, embedVars, restVars>>

NextSearch == CallSearch

SpecSearch == InitSearch /\ [][NextSearch]_vars

\* ----------------------------------------------------- claims on search
Sorted(results) ==
  \A i \in 1..(Len(results) - 1) : results[i].distance <= results[i + 1].distance

\* C6: for every query, list of collection ids and topK the list search returns
\* has at most topK elements and non-decreasing distances, and it is empty when
\* the list of collection ids is empty.
C6_AtMostTopKSortedByDistance ==
  sOut.done =>
    /\ ~sOut.raised
    /\ Len(sOut.results) <= sTopK
    /\ Sorted(sOut.results)
    /\ sIds = <<>> => sOut.results = <<>>

\* The nearest row of the collection scanned second comes first, and the pool
\* of both collections was cut to topK.
C6_Witness ==
  /\ sOut.done
  /\ Len(sIds) = 2
  /\ sIds[1] \in CollIds
  /\ sIds[2] \in CollIds
  /\ sCatalog[sIds[1]].kind = "ok"
  /\ Len(sCatalog[sIds[1]].dists) = 2
  /\ Len(sOut.results) = 2
  /\ sTopK = 2
  /\ sOut.results[1].database_id = sIds[2]
  /\ sOut.results[2].database_id = sIds[1]
  /\ sOut.results[1].distance < sOut.results[2].distance

\* C7: when the embedding of the query is the zero fallback vector or has a
\* dimension other than D, search returns the empty list and searches no collection.
C7_DegenerateQueryVectorReturnsEmpty ==
  (/\ sOut.done
   /\ sOut.queryVector # <<>>
   /\ (sOut.queryVector[1].zero \/ sOut.queryVector[1].dim # EMBEDDING_DIMENSION))
  => (sOut.results = <<>> /\ sOut.searched = <<>>)

\* A collection search does not skip: valid id, blobs readable, rows, no exception.
Searchable(id) ==
  /\ ~InvalidId(id)
  /\ id \in DOMAIN sCatalog
  /\ sCatalog[id].kind = "ok"
  /\ Len(sCatalog[id].dists) > 0

Requested(id) ==
  IndexSearch(sCatalog[id].dists, Min(sTopK, Len(sCatalog[id].dists)))

ResultsOf(id) == SelectSeq(sOut.results, LAMBDA r : r.database_id = id)

\* C23: within each collection search requests min(topK, vectorCount)
\* neighbours; every result it returns was built from a row-id r with
\* 0 <= r < len(metadata) of its collection that is among the requested
\* neighbours, and row-ids outside that range are discarded without raising.
C23_ResultsComeFromRowsInRange ==
  sOut.done =>
    /\ ~sOut.raised
    /\ \A i \in 1..Len(sOut.results) :
         LET r == sOut.results[i]
         IN /\ r.database_id \in DOMAIN sCatalog
            /\ 0 <= r.row
            /\ r.row < sCatalog[r.database_id].metaLen
            /\ \E k \in 1..Len(Requested(r.database_id)) :
                 Requested(r.database_id)[k] = [distance |-> r.distance, row |-> r.row]
    /\ \A id \in DOMAIN sCatalog :
         Len(ResultsOf(id)) <= Min(sTopK, Len(sCatalog[id].dists))

\* The index of the one collection searched has two rows and its metadata one
\* entry; both rows were requested, the nearest is the row without metadata,
\* and the result list holds the other row alone.
C23_Witness ==
  /\ sOut.done
  /\ sIds = <<"a">>
  /\ sTopK = 2
  /\ sCatalog["a"].kind = "ok"
  /\ Len(sCatalog["a"].dists) = 2
  /\ sCatalog["a"].metaLen = 1
  /\ sCatalog["a"].dists[2] < sCatalog["a"].dists[1]
  /\ Len(sOut.results) = 1
  /\ sOut.results[1].row = 0

\* The position of a collection in database_ids, and the rank of a row in the
\* result list of its collection
ScanPosition(id) == CHOOSE k \in 1..Len(sIds) : sIds[k] = id

RankInCollection(r) ==
  CHOOSE k \in 1..Len(Requested(r.database_id)) :
    Requested(r.database_id)[k].row = r.row

\* C24: results of equal distance keep a stable order: first by the position of
\* their collection in collectionIds, then by their rank within that
\* collection's own result list.
C24_TiesKeepScanOrder ==
  sOut.done =>
    \A i, j \in 1..Len(sOut.results) :
      (i < j /\ sOut.results[i].distance = sOut.results[j].distance) =>
        LET a == sOut.results[i]
            b == sOut.results[j]
        IN \/ ScanPosition(a.database_id) < ScanPosition(b.database_id)
           \/ /\ a.database_id = b.database_id
              /\ RankInCollection(a) < RankInCollection(b)

\* Two results of equal distance from two collections, in scan order, where
\* the collection scanned first is named second in the store
C24_Witness ==
  /\ sOut.done
  /\ sIds = <<"b", "a">>
  /\ Len(sOut.results) = 2
  /\ sOut.results[1].distance = sOut.results[2].distance
  /\ sOut.results[1].database_id = "b"
  /\ sOut.results[2].database_id = "a"

\* ------------------------------------------------------------ split_text
\* text[a:b] for 0 <= a and 0 <= b <= len(text)
Slice(text, a, b) == SubSeq(text, a + 1, b)

\* Lines 82-88: the for loop looks back from `end` over min(chunk_size // 4,
\* end - start) positions and breaks at the first whitespace it meets.
BreakPoint(text, start, end, size) ==
  LET look == Min(size \div 4, end - start)
      hits == {i \in 0..(look - 1) : IsSpace(text[end - i + 1])}
  IN IF hits = {} THEN end
     ELSE end - (CHOOSE i \in hits : \A j \in hits : i <= j)

\* A window that starts one character past the boundary
SkipsPastBoundary(breakPoint, overlap) == breakPoint + 1

\* Lines 91-95: start = break_point - chunk_overlap, or break_point when that
\* is negative.
NextStart(breakPoint, overlap) ==
  IF breakPoint - overlap < 0 THEN breakPoint ELSE breakPoint - overlap

\* Line 98: [chunk for chunk in chunks if chunk.strip()]
NonBlank(chunk) == Strip(chunk) # <<>>

\* A while loop that appends at most one window per character of the text has
\* returned within this many iterations; an iteration past it is not followed.
MaxSplitIters == MaxSplitLen + 1

\* The sets of at most k elements of S
RECURSIVE SubsetsUpTo(_, _)
SubsetsUpTo(S, k) ==
  IF k = 0 THEN {{}}
  ELSE LET smaller == SubsetsUpTo(S, k - 1)
       IN smaller \cup {p \cup {x} : p \in smaller, x \in S}

\* The text of n characters whose whitespace is at the positions in `spaces`
TextWith(n, spaces) == [i \in 1..n |-> IF i \in spaces THEN " " ELSE "x"]

\* The argument `text`: every string of at most MaxSplitLen characters with
\* at most MaxSpaces whitespace characters in it
SplitTexts ==
  UNION {{TextWith(n, spaces) : spaces \in SubsetsUpTo(1..n, MaxSpaces)} :
           n \in 0..MaxSplitLen}

\* Lines 65-69: the call and the early return for a text of at most chunk_size
\* characters.
SplitEnter ==
  /\ spPc = "idle"
  /\ \E text \in SplitTexts, size \in 1..MaxChunkSize :
       \E overlap \in 0..(size - 1) :
         /\ spText' = text
         /\ spSize' = size
         /\ spOverlap' = overlap
         /\ IF Len(text) <= size
            THEN spPc' = "done" /\ spChunks' = <<text>>
            ELSE spPc' = "loop" /\ spChunks' = <<>>
  /\ spStart' = 0
  /\ UNCHANGED <<spWindows, outsideSplit>>

\* Lines 71-95: one iteration of the while loop.
SplitIterate ==
  /\ spPc = "loop"
  /\ Len(spWindows) < MaxSplitIters
  /\ IF spStart < Len(spText)
     THEN LET end == spStart + spSize
          IN IF end >= Len(spText)
             THEN /\ spChunks' = Append(spChunks, Strip(Slice(spText, spStart, Len(spText))))
                  /\ spWindows' = Append(spWindows, [start |-> spStart, stop |-> Len(spText)])
                  /\ spPc' = "filter"
                  /\ UNCHANGED spStart
             ELSE LET bp == BreakPoint(spText, spStart, end, spSize)
                  IN /\ spChunks' = Append(spChunks, Strip(Slice(spText, spStart, bp)))
                     /\ spWindows' = Append(spWindows, [start |-> spStart, stop |-> bp])
                     /\ spStart' = NextStart(bp, spOverlap)
                     /\ UNCHANGED spPc
     ELSE /\ spPc' = "filter"
          /\ UNCHANGED <<spStart, spChunks, spWindows>>
  /\ UNCHANGED <<spText, spSize, spOverlap, outsideSplit>>

\* Line 98: the return after the loop.
SplitReturn ==
  /\ spPc = "filter"
  /\ spChunks' = SelectSeq(spChunks, NonBlank)
  /\ spPc' = "done"
  /\ UNCHANGED <<spText, spSize, spOverlap, spStart, spWindows, outsideSplit>>

AllIdle ==
  /\ IngestIdle
  /\ EmbedIdle
  /\ SearchIdle
  /\ RestIdle

InitSplit == AllIdle

NextSplit ==
  \/ SplitEnter
  \/ SplitIterate
  \/ SplitReturn

SpecSplit == InitSplit /\ [][NextSplit]_vars

Trimmed(chunk) == chunk # <<>> /\ Strip(chunk) = chunk

\* C11: every chunk split returns is non-empty and has no leading or trailing
\* whitespace, and a text of at most chunkSize characters yields [text.strip()].
C11_ChunksAreNonEmptyAndTrimmed ==
  spPc = "done" =>
    /\ \A i \in 1..Len(spChunks) : Trimmed(spChunks[i])
    /\ Len(spText) <= spSize => spChunks = <<Strip(spText)>>

\* C21: the window start never moves backward: the start used by each
\* iteration of split is greater than or equal to the start of the iteration
\* before it.
C21_StartNeverMovesBackward ==
  \A i \in 2..Len(spWindows) : spWindows[i].start >= spWindows[i - 1].start

Max(a, b) == IF a >= b THEN a ELSE b

\* The part of window i that the window before it did not cover
NonOverlapRegion(i) ==
  LET from == IF i = 1 THEN spWindows[1].start
              ELSE Max(spWindows[i].start, spWindows[i - 1].stop)
  IN Slice(spText, from, spWindows[i].stop)

\* The non-whitespace character at position p (counted from 1) is in a
\* returned chunk: a window covers it and the chunk cut from that window is in
\* the returned list.
InReturnedChunk(p) ==
  \E i \in 1..Len(spWindows) :
    /\ spWindows[i].start < p
    /\ p <= spWindows[i].stop
    /\ \E j \in 1..Len(spChunks) :
         spChunks[j] = Strip(Slice(spText, spWindows[i].start, spWindows[i].stop))

SplitOfLongText == spPc = "done" /\ Len(spText) > spSize

\* C22: when split returns for a text longer than chunkSize, the windows leave
\* no gap: the first starts at 0, each next one starts at or before the
\* boundary of the one before, the last ends at the end of the text, every
\* non-whitespace character is in a returned chunk and the non-overlap regions
\* concatenate back to the text.
C22_WindowsLeaveNoGap ==
  SplitOfLongText =>
    /\ spWindows # <<>>
    /\ spWindows[1].start = 0
    /\ \A i \in 2..Len(spWindows) : spWindows[i].start <= spWindows[i - 1].stop
    /\ spWindows[Len(spWindows)].stop = Len(spText)
    /\ \A p \in 1..Len(spText) : ~IsSpace(spText[p]) => InReturnedChunk(p)
    /\ Concat([i \in 1..Len(spWindows) |-> NonOverlapRegion(i)]) = spText

\* split returned for a long text after three windows, one of them cut at a
\* whitespace before the raw boundary, with overlapping windows
C22_Witness ==
  /\ SplitOfLongText
  /\ Len(spWindows) >= 3
  /\ spOverlap > 0
  /\ spWindows[2].start < spWindows[1].stop
  /\ spWindows[1].stop < spWindows[1].start + spSize

\* C30: split terminates for every text, chunkSize >= 1 and 0 <= overlap <
\* chunkSize, because the window start strictly advances in every iteration.
C30_StartStrictlyAdvances ==
  \A i \in 2..Len(spWindows) : spWindows[i].start > spWindows[i - 1].start

\* ------------------------------------------------------ build_rag_context
\* A result of search is [isDict, chunkLen, nameLen]: whether the entry is a
\* dict, len(doc["chunk_text"]) (0 when the key is missing or the text is "")
\* and len(doc["file_name"]). The returned string is [leadIn, blocks]: whether
\* it starts with the lead-in line, and one block per emitted document with the
\* position of the document in the input, the length of the text after
\* "Content: " and whether that text ends with the ellipsis; "" has neither.
EmptyString == [leadIn |-> FALSE, blocks |-> <<>>]

\* len(f"Document {n}:"), len(f"File name: {file_name}"), len(f"Content: {c}")
DocumentLineLen(n) == 10 + (IF n < 10 THEN 1 ELSE 2)

FileNameLineLen(doc) == 11 + doc.nameLen

ContentLineLen(contentLen) == 9 + contentLen

\* chat-bedrock, lines 408-413: chunk_text[:max_chunk_length], "..." added when
\* the text was longer.
TruncatedContent(doc) ==
  IF doc.chunkLen > max_chunk_length
  THEN [len |-> max_chunk_length + EllipsisLen, ellipsis |-> TRUE]
  ELSE [len |-> doc.chunkLen, ellipsis |-> FALSE]

\* chat-bedrock, lines 399-447: the loop from document i on; total is
\* total_length, blocks the documents added so far.
RECURSIVE ChatLoop(_, _, _, _)
ChatLoop(docs, i, total, blocks) ==
  IF i > Len(docs) THEN blocks
  ELSE IF ~docs[i].isDict \/ docs[i].chunkLen = 0
       THEN ChatLoop(docs, i + 1, total, blocks)
       ELSE LET content == TruncatedContent(docs[i])
            IN IF total + content.len > max_total_length THEN blocks
               ELSE ChatLoop(docs, i + 1, total + content.len,
                             Append(blocks, [doc |-> i, contentLen |-> content.len,
                                             ellipsis |-> content.ellipsis]))

\* A return that joins context_parts whatever processed_docs is.
AlwaysJoined(blocks) == [leadIn |-> TRUE, blocks |-> blocks]

\* Lines 449-458 (chat) and 212 (tools): "" when processed_docs == 0, else the
\* joined parts.
ReturnContext(blocks) ==
  IF blocks = <<>> THEN EmptyString ELSE [leadIn |-> TRUE, blocks |-> blocks]

\* chat-bedrock build_rag_context, lines 389-458.
build_rag_context_chat(docs) ==
  IF docs = <<>> THEN EmptyString
  ELSE ReturnContext(ChatLoop(docs, 1, 0, <<>>))

\* chat-bedrock-tools, line 206: chunk_text[:500], no marker.
ToolsContentLen(doc) == IF doc.chunkLen > 500 THEN 500 ELSE doc.chunkLen

\* len("\n".join(context_parts)) for parts of partsLen characters in all
JoinedLen(partsLen, partsCount) == partsLen + (partsCount - 1)

\* chat-bedrock-tools, lines 190-210: the loop from document i on; the budget
\* test adds the length of the whole chunk_text to the length of everything
\* joined so far.
RECURSIVE ToolsLoop(_, _, _, _, _)
ToolsLoop(docs, i, partsLen, partsCount, blocks) ==
  IF i > Len(docs) THEN blocks
  ELSE IF ~docs[i].isDict \/ docs[i].chunkLen = 0
       THEN ToolsLoop(docs, i + 1, partsLen, partsCount, blocks)
       ELSE IF JoinedLen(partsLen, partsCount) + docs[i].chunkLen > max_total_length
            THEN blocks
            ELSE ToolsLoop(docs, i + 1,
                           partsLen + DocumentLineLen(Len(blocks) + 1)
                             + FileNameLineLen(docs[i])
                             + ContentLineLen(ToolsContentLen(docs[i])),
                           partsCount + 4,
                           Append(blocks, [doc |-> i, contentLen |-> ToolsContentLen(docs[i]),
                                           ellipsis |-> FALSE]))

\* chat-bedrock-tools build_rag_context, lines 181-212.
build_rag_context_tools(docs) ==
  IF docs = <<>> THEN EmptyString
  ELSE ReturnContext(ToolsLoop(docs, 1, LeadInLen, 1, <<>>))

build_rag_context(variant, docs) ==
  IF variant = "chat" THEN build_rag_context_chat(docs)
  ELSE build_rag_context_tools(docs)

\* len("Unknown"), the file name of every document of the model
NameLen == 7

Doc(chunkLen) == [isDict |-> TRUE, chunkLen |-> chunkLen, nameLen |-> NameLen]

NonDictDoc == [isDict |-> FALSE, chunkLen |-> 0, nameLen |-> 0]

\* Chunks as long as max_chunk_length and twice as long make the bulk of a
\* list; one entry of another kind may stand anywhere in it: no dict, no text,
\* one character, a chunk as long as the whole budget.
BulkDocs == {Doc(max_chunk_length), Doc(2 * max_chunk_length)}

OddDocs == {NonDictDoc, Doc(0), Doc(1), Doc(max_total_length)}

InsertAt(seq, pos, x) == SubSeq(seq, 1, pos) \o <<x>> \o SubSeq(seq, pos + 1, Len(seq))

DocLists ==
  LET bulk == SeqsUpTo(BulkDocs, MaxDocs)
  IN bulk \cup UNION { { InsertAt(b, pos, x) : pos \in 0..Len(b), x \in OddDocs } :
                         b \in { l \in bulk : Len(l) < MaxDocs } }

\* One call of build_rag_context on what search returned.
CallBuildContext ==
  /\ ~ctxOut.done
  /\ \E variant \in SearchVariants, docs \in DocLists :
       /\ ctxVariant' = variant
       /\ ctxDocs' = docs
       /\ ctxOut' = [done |-> TRUE] @@ build_rag_context(variant, docs)
  /\ UNCHANGED <<ctxPrompt, outsideCtx>>

\* handler, chat-bedrock lines 906-910 and chat-bedrock-tools lines 715-717:
\* the context is added to the system prompt when rag_context is not "".
EnhancePrompt ==
  /\ ctxOut.done
  /\ ctxPrompt = "unset"
  /\ ctxPrompt' = IF ctxOut.leadIn \/ ctxOut.blocks # <<>>
                  THEN "system_prompt+rag_context" ELSE "system_prompt"
  /\ UNCHANGED <<ctxDocs, ctxVariant, ctxOut, outsideCtx>>

InitContext == AllIdle

NextContext ==
  \/ CallBuildContext
  \/ EnhancePrompt

SpecContext == InitContext /\ [][NextContext]_vars

\* C12: build_rag_context returns "" whenever it emits no document, never the
\* lead-in line alone, and the handler then leaves the system prompt as it was.
C12_NoDocumentsGivesEmptyString ==
  (ctxOut.done /\ ctxOut.blocks = <<>>) =>
    /\ ctxOut.leadIn = FALSE
    /\ ctxPrompt \in {"unset", "system_prompt"}

\* The first of several documents is over the budget of the tools copy, nothing
\* was emitted and the handler kept the system prompt.
C12_Witness ==
  /\ ctxOut.done
  /\ ctxVariant = "tools"
  /\ Len(ctxDocs) >= 2
  /\ ctxDocs[1].chunkLen = max_total_length
  /\ ctxOut.blocks = <<>>
  /\ ctxPrompt = "system_prompt"

\* The text a document is to be emitted with: 500 characters and the ellipsis
\* when the chunk is longer, else the chunk.
EmittedLen(doc) ==
  IF doc.chunkLen > max_chunk_length THEN max_chunk_length + EllipsisLen ELSE doc.chunkLen

RECURSIVE SumContent(_)
SumContent(blocks) ==
  IF blocks = <<>> THEN 0 ELSE Head(blocks).contentLen + SumContent(Tail(blocks))

ValidDocs == {i \in 1..Len(ctxDocs) : ctxDocs[i].isDict /\ ctxDocs[i].chunkLen > 0}

EmittedDocs == {ctxOut.blocks[k].doc : k \in 1..Len(ctxOut.blocks)}

\* C13: documents are emitted in input order, each content cut to 500
\* characters with an ellipsis when longer; the emitted contents sum to at most
\* 4000, and emission stops exactly at the first document whose content would
\* push the running total above 4000.
C13_EmissionStopsAtFirstOverBudget ==
  ctxOut.done =>
    /\ \A k \in 1..(Len(ctxOut.blocks) - 1) : ctxOut.blocks[k].doc < ctxOut.blocks[k + 1].doc
    /\ EmittedDocs \subseteq ValidDocs
    /\ \A k \in 1..Len(ctxOut.blocks) :
         /\ ctxOut.blocks[k].contentLen = EmittedLen(ctxDocs[ctxOut.blocks[k].doc])
         /\ ctxOut.blocks[k].ellipsis = (ctxDocs[ctxOut.blocks[k].doc].chunkLen > max_chunk_length)
    /\ SumContent(ctxOut.blocks) <= max_total_length
    /\ \A i \in EmittedDocs : \A j \in ValidDocs : j < i => j \in EmittedDocs
    /\ \A j \in ValidDocs \ EmittedDocs :
         (\A h \in ValidDocs \ EmittedDocs : j <= h) =>
           SumContent(ctxOut.blocks) + EmittedLen(ctxDocs[j]) > max_total_length

\* ------------------------------------------------ load_tools_from_dynamodb
\* The table holds items 1..n, item i being [id, isActive, schemaOk]; schemaOk
\* is FALSE when building the tool spec of the item raises (inputSchema that is
\* no JSON, a missing key). selected_tool_ids is [given, ids]: None, or a list.
ToolIds == 1..MaxTools

ToolTables ==
  UNION { [1..n -> [id : ToolIds, isActive : BOOLEAN, schemaOk : BOOLEAN]] : n \in 0..MaxTools }

ToolSelections ==
  {[given |-> FALSE, ids |-> {}]} \cup {[given |-> TRUE, ids |-> S] : S \in SUBSET ToolIds}

\* toolspecs_table.scan(FilterExpression=Attr("isActive").eq(True))
ScanActive(table) == SelectSeq(table, LAMBDA item : item.isActive)

\* Line 226: `selected_tool_ids and item["id"] not in selected_tool_ids`; None
\* and the empty list are both falsy.
SkipsUnselected(selected, item) ==
  selected.given /\ selected.ids # {} /\ item.id \notin selected.ids

\* Lines 225-246: the loop over the scanned items; an item whose spec cannot be
\* built is passed over.
RECURSIVE CollectTools(_, _)
CollectTools(items, selected) ==
  IF items = <<>> THEN <<>>
  ELSE (IF SkipsUnselected(selected, Head(items)) \/ ~Head(items).schemaOk
        THEN <<>> ELSE <<Head(items)>>) \o CollectTools(Tail(items), selected)

\* get_fallback_tools, lines 422-424
get_fallback_tools == <<>>

\* load_tools_from_dynamodb, lines 215-251: the fallback when the table is not
\* configured, when the scan raises and when no tool was collected.
load_tools_from_dynamodb(table, selected, tableOk, scanOk) ==
  IF ~tableOk THEN get_fallback_tools
  ELSE IF ~scanOk THEN get_fallback_tools
  ELSE LET tools == CollectTools(ScanActive(table), selected)
       IN IF tools # <<>> THEN tools ELSE get_fallback_tools

\* handler, line 735: one call with the selectedToolIds of the request.
CallLoadTools ==
  /\ ~tsOut.done
  /\ \E table \in ToolTables, selected \in ToolSelections, tableOk \in BOOLEAN, scanOk \in BOOLEAN :
       /\ tsStore' = table
       /\ tsSelected' = selected
       /\ tsOut' = [done |-> TRUE,
                    tools |-> load_tools_from_dynamodb(table, selected, tableOk, scanOk)]
  /\ UNCHANGED outsideToolList

InitToolList == AllIdle

NextToolList == CallLoadTools

SpecToolList == InitToolList /\ [][NextToolList]_vars

ActiveInStore(tool) == \E i \in 1..Len(tsStore) : tsStore[i] = tool /\ tsStore[i].isActive

\* C14: every tool spec listActive returns is active in the store, and whenever
\* selectedIds is given, the empty list included, the id of every returned spec
\* is in selectedIds.
C14_ReturnedToolsAreActiveAndSelected ==
  tsOut.done =>
    \A k \in 1..Len(tsOut.tools) :
      /\ ActiveInStore(tsOut.tools[k])
      /\ tsSelected.given => tsOut.tools[k].id \in tsSelected.ids

\* ------------------------------------------------------------ tool sandbox
\* Three entry points run the code of a tool: execute_custom_tool of
\* chat-bedrock-tools ("tools"), handler of test-tool ("test") and handler of
\* execute-tool ("exec").
SandboxVariants == {"tools", "test", "exec"}

EntryNames == {"handler", "main", "execute"}

ToolCodes ==
  { [defines |-> d, loadFault |-> f, needsInputs |-> FALSE, setsResult |-> FALSE] :
      d \in (SUBSET EntryNames) \ {{}}, f \in BOOLEAN }
  \cup { [defines |-> {}, loadFault |-> f, needsInputs |-> n, setsResult |-> r] :
           f \in BOOLEAN, n \in BOOLEAN, r \in BOOLEAN }

\* The value of a "success" key: missing, True or False.
Flags == {"absent", "true", "false"}

\* The body of an HTTP-style mapping: a dict, a str that json.loads turns into
\* a dict (json = "dict"), into something else (json = "other") or rejects
\* (json = "none"), or a value that is neither dict nor str.
Bodies ==
  { [kind |-> "dict", success |-> f, json |-> "none"] : f \in Flags }
  \cup { [kind |-> "str", success |-> f, json |-> "dict"] : f \in Flags }
  \cup { [kind |-> "str", success |-> "absent", json |-> j] : j \in {"other", "none"} }
  \cup { [kind |-> "other", success |-> "absent", json |-> "none"] }

\* What the code of a tool can return: no dict, a plain dict, or a dict with
\* the keys statusCode and body.
ReturnValues ==
  { [kind |-> "nondict", success |-> "absent", status |-> 0, body |-> NoBody] }
  \cup { [kind |-> "dict", success |-> f, status |-> 0, body |-> NoBody] : f \in Flags }
  \cup { [kind |-> "http", success |-> "absent", status |-> st, body |-> b] :
           st \in {200, 500}, b \in Bodies }

\* `result = {...}` left by a script, and the str "Tool executed successfully"
ScriptResult == [kind |-> "dict", success |-> "absent", status |-> 0, body |-> NoBody]

GenericMessage == [kind |-> "message", success |-> "absent", status |-> 0, body |-> NoBody]

\* What an entry point returns: the "success" key, what became of the value of
\* the tool (payload), and whether the error text holds the text of the
\* exception the tool's code raised.
Envelope(success, payload) ==
  [raised |-> FALSE, success |-> success, payload |-> payload, faultText |-> FALSE]

\* `except Exception as e` of the entry points: chat-bedrock-tools lines
\* 417-419, test-tool lines 173-175, execute-tool lines 256-258; the error
\* text ends with str(e).
FaultEnvelope == [raised |-> FALSE, success |-> "false", payload |-> "none", faultText |-> TRUE]

\* The same except clauses reached by the TypeError of a call that could not
\* bind its arguments: the error text is the text of that TypeError.
BindingErrorEnvelope ==
  [raised |-> FALSE, success |-> "false", payload |-> "none", faultText |-> FALSE]

\* chat-bedrock-tools execute_custom_tool, lines 382-415
normalize_tools(v) ==
  IF v.kind = "http"
  THEN IF v.status = 200
       THEN IF v.body.kind = "str"
            THEN CASE v.body.json = "dict" -> Envelope(v.body.success, "parsed")
                   [] v.body.json = "other" -> Envelope("true", "parsed")
                   [] OTHER -> Envelope("true", "text")
            ELSE IF v.body.kind = "dict" THEN Envelope(v.body.success, "raw")
                 ELSE Envelope("true", "raw")
       ELSE IF v.body.kind = "str"
            THEN CASE v.body.json = "dict" -> Envelope("false", "parsed")
                   [] v.body.json = "other" -> Envelope("false", "stringified")
                   [] OTHER -> Envelope("false", "text")
            ELSE Envelope("false", "stringified")
  ELSE IF v.kind = "dict" THEN Envelope(v.success, "raw")
       ELSE Envelope("false", "none")

\* test-tool execute_custom_tool, lines 128-171; parsed_error.get of a parsed
\* body that is no dict raises inside the try and ends in the except clause.
normalize_test(v) ==
  IF v.kind = "http"
  THEN IF v.status = 200
       THEN IF v.body.kind = "str"
            THEN IF v.body.json = "none" THEN Envelope("true", "text")
                 ELSE Envelope("true", "parsed")
            ELSE Envelope("true", "raw")
       ELSE IF v.body.kind = "str"
            THEN CASE v.body.json = "dict" -> Envelope("false", "message")
                   [] v.body.json = "other" -> Envelope("false", "none")
                   [] OTHER -> Envelope("false", "text")
            ELSE Envelope("false", "stringified")
  ELSE IF v.kind = "dict"
       THEN Envelope(IF v.success = "false" THEN "false" ELSE "true", "raw")
       ELSE Envelope("false", "none")

\* execute-tool, lines 195-205 and 244-249: the value is put under "body" of a
\* statusCode-200 mapping unless it has that shape already, and the handler
\* returns it under "result" with success True.
normalize_exec(v) == Envelope("true", "raw")

NormalizeResult(variant, v) ==
  CASE variant = "tools" -> normalize_tools(v)
    [] variant = "test" -> normalize_test(v)
    [] OTHER -> normalize_exec(v)

\* The requirements of a tool: at most MaxDeps package lines.
DepLists == SeqsUpTo(Packages, MaxDeps)

\* What one run of pip can end with: exit code 0, another exit code, or
\* subprocess.TimeoutExpired.
PipOutcomes == {"ok", "fail", "timeout"}

\* An invocation ends: the entry point returns `out`.
Finish(out) ==
  /\ tOut' = [done |-> TRUE] @@ out
  /\ tPc' = "done"

\* A request reaches the process: the first one fixes the entry point, a later
\* one is served by the same process once the one before has returned.
InvokeTool ==
  /\ tPc = "idle"
  /\ tInv < MaxInvocations
  /\ \E variant \in SandboxVariants, tool \in ToolCodes, found \in BOOLEAN, deps \in DepLists :
       /\ tInv = 0 \/ variant = tVariant
       /\ tVariant' = variant
       /\ tTool' = tool
       /\ tCodeFound' = found
       /\ tDeps' = deps
  /\ tInv' = tInv + 1
  /\ tPc' = "resolve"
  /\ tStages' = <<>>
  /\ tAttempted' = <<>>
  /\ tInstallOk' = TRUE
  /\ tCalls' = <<>>
  /\ tFault' = FALSE
  /\ tRaw' = NoValue
  /\ tOut' = NoOutcome
  /\ UNCHANGED <<tPkgDir, tSysPath, outsideSandbox>>

\* RESOLVE_SPEC. chat-bedrock-tools lines 324-329: no execution code, failure.
\* test-tool lines 262-285: the item is read; its code is looked at after the
\* install. execute-tool lines 231-237: the keys are taken from the event.
ResolveSpec ==
  /\ tPc = "resolve"
  /\ tStages' = Append(tStages, "RESOLVE_SPEC")
  /\ IF tVariant = "tools" /\ ~tCodeFound
     THEN Finish(Envelope("false", "none"))
     ELSE tPc' = "install" /\ UNCHANGED tOut
  /\ UNCHANGED <<tInv, tVariant, tTool, tCodeFound, tDeps, tAttempted, tInstallOk,
                 tCalls, tFault, tRaw, tPkgDir, tSysPath, outsideSandbox>>

FirstFailure(outcomes) ==
  IF \A i \in 1..Len(outcomes) : outcomes[i] = "ok" THEN 0
  ELSE CHOOSE i \in 1..Len(outcomes) :
         outcomes[i] # "ok" /\ \A j \in 1..(i - 1) : outcomes[j] = "ok"

\* install_tool_requirements, chat-bedrock-tools lines 287-315 and test-tool
\* lines 32-61: pip runs once per package and the first one that fails ends
\* the loop.
InstallEach(deps, outcomes) ==
  LET f == FirstFailure(outcomes)
      last == IF f = 0 THEN Len(deps) ELSE f
  IN [ok |-> f = 0,
      attempted |-> [i \in 1..last |-> [pkg |-> deps[i], outcome |-> outcomes[i]]],
      installed |-> {deps[i] : i \in 1..(IF f = 0 THEN Len(deps) ELSE f - 1)},
      onPath |-> f = 0 /\ deps # <<>>]

\* install_requirements, execute-tool lines 64-80: one run of pip for all the
\* lines of requirements.txt.
InstallAll(deps, outcome) ==
  [ok |-> deps = <<>> \/ outcome = "ok",
   attempted |-> [i \in 1..Len(deps) |-> [pkg |-> deps[i], outcome |-> outcome]],
   installed |-> IF outcome = "ok" THEN {deps[i] : i \in 1..Len(deps)} ELSE {},
   onPath |-> FALSE]

\* chat-bedrock-tools lines 331-335 and test-tool lines 329-339: a failed
\* install ends the invocation.
AfterInstallChecked(installOk) == IF installOk THEN "load" ELSE "failed"

\* execute-tool lines 114-119: "Failed to install requirements, continuing
\* anyway".
AfterInstallExec(installOk) == "load"

AfterInstall(variant, installOk) ==
  IF variant = "exec" THEN AfterInstallExec(installOk) ELSE AfterInstallChecked(installOk)

\* INSTALL_DEPS: pip installs into the one directory of the process,
\* /tmp/packages (--target) or the user site (--user).
InstallDeps ==
  /\ tPc = "install"
  /\ tStages' = Append(tStages, "INSTALL_DEPS")
  /\ \E outcomes \in [1..Len(tDeps) -> PipOutcomes] :
       LET r == IF tVariant = "exec"
                THEN InstallAll(tDeps, IF tDeps = <<>> THEN "ok" ELSE outcomes[1])
                ELSE InstallEach(tDeps, outcomes)
       IN /\ tVariant = "exec" =>
               \A i \in 1..Len(tDeps) : outcomes[i] = outcomes[1]
          /\ tAttempted' = r.attempted
          /\ tInstallOk' = r.ok
          /\ tPkgDir' = [p \in Packages |->
                           IF p \in r.installed /\ tPkgDir[p] = 0 THEN tInv ELSE tPkgDir[p]]
          /\ tSysPath' = (tSysPath \/ r.onPath)
          /\ IF AfterInstall(tVariant, r.ok) = "load"
             THEN tPc' = "load" /\ UNCHANGED tOut
             ELSE Finish(Envelope("false", "none"))
  /\ UNCHANGED <<tInv, tVariant, tTool, tCodeFound, tDeps, tCalls, tFault, tRaw,
                 outsideSandbox>>

\* Running the top-level statements of the code with no input field in the
\* namespace raises when they raise by themselves or read an input field.
LoadRaises(tool) == tool.loadFault \/ (tool.defines = {} /\ tool.needsInputs)

\* LOAD_CODE. chat-bedrock-tools lines 337-353 and test-tool lines 342-366,
\* 77-92: exec of the code, then "Custom tool must define a 'handler'
\* function". execute-tool lines 121-141: download, exec_module.
LoadCode ==
  /\ tPc = "load"
  /\ tStages' = Append(tStages, "LOAD_CODE")
  /\ IF ~tCodeFound
     THEN /\ Finish(Envelope("false", "none"))
          /\ UNCHANGED tFault
     ELSE IF LoadRaises(tTool)
          THEN /\ Finish(FaultEnvelope)
               /\ tFault' = TRUE
          ELSE IF tVariant # "exec" /\ "handler" \notin tTool.defines
               THEN /\ Finish(Envelope("false", "none"))
                    /\ UNCHANGED tFault
               ELSE /\ tPc' = "execute"
                    /\ UNCHANGED <<tOut, tFault>>
  /\ UNCHANGED <<tInv, tVariant, tTool, tCodeFound, tDeps, tAttempted, tInstallOk,
                 tCalls, tRaw, tPkgDir, tSysPath, outsideSandbox>>

\* The calling convention: execute-tool lines 148-193 take handler, else main,
\* else execute, else the bare script; the two execute_custom_tool know
\* handler only.
Convention(variant, tool) ==
  IF "handler" \in tool.defines THEN "handler"
  ELSE IF "main" \in tool.defines THEN "main"
  ELSE IF "execute" \in tool.defines THEN "execute"
  ELSE "script"

\* What a call into the tool's code can do: return a value or raise. A call
\* with keyword arguments can also fail to bind them, with the TypeError "got
\* an unexpected keyword argument" ("mismatch") or "missing ... required
\* positional argument" ("missing"), and its body can raise a TypeError of its
\* own whose text holds "takes" or "unexpected keyword argument"
\* ("typeErrorInBody").
CallOutcomes(convention) ==
  IF convention = "handler" THEN {"returns", "raises"}
  ELSE {"returns", "raises", "mismatch", "missing", "typeErrorInBody"}

\* execute-tool lines 161-167 and 174-180: `except TypeError as e: if
\* "unexpected keyword argument" in str(e) or "takes" in str(e)` calls the
\* function again with the parameters as one dict; else the error is raised.
Retried(outcome) == outcome \in {"mismatch", "typeErrorInBody"}

\* How the second call, with the parameters as one dict, can end: it returns,
\* its body raises, or the function does not take one positional argument
\* ("unbound", the TypeError of the call itself).
RetryOutcomes == {"returns", "raises", "unbound"}

\* One call into the tool's code: the entry called, how the input was passed
\* and how the call ended.
Call(entry, args, ended) == [entry |-> entry, args |-> args, ended |-> ended]

\* EXECUTE. A value goes on to NORMALIZE_RESULT, an exception to the except
\* clause of the entry point.
Execute ==
  /\ tPc = "execute"
  /\ tStages' = Append(tStages, "EXECUTE")
  /\ LET conv == Convention(tVariant, tTool)
     IN IF conv = "script"
        THEN /\ tCalls' = <<Call("script", "namespace", "returns")>>
             /\ tRaw' = IF tTool.setsResult THEN ScriptResult ELSE GenericMessage
             /\ tPc' = "normalize"
             /\ UNCHANGED <<tOut, tFault>>
        ELSE \E first \in CallOutcomes(conv), second \in RetryOutcomes,
                value \in ReturnValues :
               LET retried == Retried(first)
                   toolRaised == \/ first \in {"raises", "typeErrorInBody"}
                                 \/ (retried /\ second = "raises")
                   unbound == first = "missing" \/ (retried /\ second = "unbound")
                   raises == first = "raises" \/ (retried /\ second = "raises")
               IN /\ ~retried => second = "returns"
                  /\ (raises \/ unbound) =>
                       value = CHOOSE v \in ReturnValues : v.kind = "nondict"
                  /\ tCalls' = IF conv = "handler"
                               THEN <<Call("handler", "event", first)>>
                               ELSE IF retried
                               THEN <<Call(conv, "kwargs", first),
                                      Call(conv, "dict", second)>>
                               ELSE <<Call(conv, "kwargs", first)>>
                  /\ tFault' = toolRaised
                  /\ IF raises
                     THEN /\ Finish(FaultEnvelope)
                          /\ UNCHANGED tRaw
                     ELSE IF unbound
                     THEN /\ Finish(BindingErrorEnvelope)
                          /\ UNCHANGED tRaw
                     ELSE /\ tRaw' = value
                          /\ tPc' = "normalize"
                          /\ UNCHANGED tOut
  /\ UNCHANGED <<tInv, tVariant, tTool, tCodeFound, tDeps, tAttempted, tInstallOk,
                 tPkgDir, tSysPath, outsideSandbox>>

\* NORMALIZE_RESULT
Normalize ==
  /\ tPc = "normalize"
  /\ tStages' = Append(tStages, "NORMALIZE_RESULT")
  /\ Finish(NormalizeResult(tVariant, tRaw))
  /\ UNCHANGED <<tInv, tVariant, tTool, tCodeFound, tDeps, tAttempted, tInstallOk,
                 tCalls, tFault, tRaw, tPkgDir, tSysPath, outsideSandbox>>

\* The entry point has returned: its locals are gone, the process and its
\* package directory stay for the next request.
AwaitNext ==
  /\ tPc = "done"
  /\ tPc' = "idle"
  /\ tTool' = NoTool
  /\ tCodeFound' = FALSE
  /\ tDeps' = <<>>
  /\ tStages' = <<>>
  /\ tAttempted' = <<>>
  /\ tInstallOk' = TRUE
  /\ tCalls' = <<>>
  /\ tFault' = FALSE
  /\ tRaw' = NoValue
  /\ tOut' = NoOutcome
  /\ UNCHANGED <<tInv, tVariant, tPkgDir, tSysPath, outsideSandbox>>

InitSandbox == AllIdle

NextSandbox ==
  \/ InvokeTool
  \/ ResolveSpec
  \/ InstallDeps
  \/ LoadCode
  \/ Execute
  \/ Normalize
  \/ AwaitNext

SpecSandbox == InitSandbox /\ [][NextSandbox]_vars

StageOrder == <<"RESOLVE_SPEC", "INSTALL_DEPS", "LOAD_CODE", "EXECUTE", "NORMALIZE_RESULT">>

Ran(stage) == \E i \in 1..Len(tStages) : tStages[i] = stage

\* C15: in every entry point the stages run in the order RESOLVE_SPEC,
\* INSTALL_DEPS, LOAD_CODE, EXECUTE; when the install of a dependency fails the
\* invocation ends in a failure, the code is neither loaded nor executed and
\* no later dependency is attempted.
C15_FailedInstallEndsTheInvocation ==
  /\ tStages = SubSeq(StageOrder, 1, Len(tStages))
  /\ (tPc = "done" /\ ~tInstallOk) =>
       /\ tOut.success = "false"
       /\ ~Ran("LOAD_CODE")
       /\ ~Ran("EXECUTE")
       /\ \A i \in 1..(Len(tAttempted) - 1) : tAttempted[i].outcome = "ok"

\* C16: a tool whose code raises while it is loaded or executed never makes the
\* entry point raise; it returns success = false with an error text that holds
\* the text of the exception.
C16_ToolFaultBecomesFailureEnvelope ==
  (tPc = "done" /\ tFault) =>
    /\ ~tOut.raised
    /\ tOut.success = "false"
    /\ tOut.faultText

\* C17: whatever the tool returned, execute_custom_tool returns a mapping with
\* a boolean success.
C17_EnvelopeHasBooleanSuccess ==
  (tPc = "done" /\ tVariant \in {"tools", "test"}) => tOut.success \in {"true", "false"}

\* C18: for a returned mapping with statusCode and body the envelope is a
\* success when statusCode is 200 and a failure otherwise, whatever the body
\* holds; a str body that parses as JSON is returned parsed, another str as text.
C18_StatusCodeDecidesSuccess ==
  (tPc = "done" /\ tVariant \in {"tools", "test"} /\ tRaw.kind = "http") =>
    /\ tOut.success = (IF tRaw.status = 200 THEN "true" ELSE "false")
    /\ tRaw.body.kind = "str" =>
         tOut.payload = (IF tRaw.body.json = "none" THEN "text" ELSE "parsed")

\* C19: code without entry function runs as a script with the input fields in
\* its namespace; the `result` it leaves is returned in a success, and without
\* `result` the call succeeds with the generic message.
C19_BareScriptReturnsItsResult ==
  (/\ tPc = "done"
   /\ Ran("LOAD_CODE")
   /\ tCodeFound
   /\ tTool.defines = {}
   /\ ~tTool.loadFault) =>
    /\ tCalls = <<Call("script", "namespace", "returns")>>
    /\ tOut.success = "true"
    /\ tRaw = (IF tTool.setsResult THEN ScriptResult ELSE GenericMessage)

\* The entry point the precedence order handler, main, execute, bare script
\* picks for the code of the invocation
FirstMatching ==
  IF "handler" \in tTool.defines THEN "handler"
  ELSE IF "main" \in tTool.defines THEN "main"
  ELSE IF "execute" \in tTool.defines THEN "execute"
  ELSE "script"

\* C25: EXECUTE uses exactly one calling convention per invocation, the first
\* that matches in the order handler, main, execute, bare script; a second,
\* positional call of the same function is made only after the keyword call
\* failed with an argument mismatch.
C25_OneConventionRetryOnlyOnMismatch ==
  tCalls # <<>> =>
    /\ \A i \in 1..Len(tCalls) : tCalls[i].entry = FirstMatching
    /\ Len(tCalls) <= 2
    /\ Len(tCalls) = 2 =>
         /\ tCalls[1].args = "kwargs"
         /\ tCalls[1].ended = "mismatch"
         /\ tCalls[2].args = "dict"

\* C20: two invocations never share a package directory: while an invocation
\* loads and runs code, no package installed for another invocation is in the
\* directory it uses.
C20_PackageDirectoryIsPerInvocation ==
  tPc \in {"load", "execute", "normalize"} =>
    \A p \in Packages : tPkgDir[p] \in {0, tInv}

\* ------------------------------------------------------------ usage quota
\* chat-bedrock-tools keeps one item per recorded request in user_usage_table.
\* Line 586: record_id = f"{user_id}#{period}#{unix_timestamp}"
RecordId(user, day, second) == <<user, day, second>>

\* Lines 594-609: put_item creates the item or replaces the item of that id.
PutItem(table, id, item) == (id :> item) @@ table

\* Lines 496-501: scan with Attr("id").begins_with(f"{user_id}#{period}#")
ScanItems(table, user, day) ==
  {id \in DOMAIN table : id[1] = user /\ id[2] = day}

\* sum(item.get(field, 0) for item in items)
RECURSIVE SumTokens(_, _)
SumTokens(table, ids) ==
  IF ids = {} THEN 0
  ELSE LET id == CHOOSE x \in ids : TRUE
       IN table[id].totalTokens + SumTokens(table, ids \ {id})

RECURSIVE SumRequests(_, _)
SumRequests(table, ids) ==
  IF ids = {} THEN 0
  ELSE LET id == CHOOSE x \in ids : TRUE
       IN table[id].totalRequests + SumRequests(table, ids \ {id})

\* get_user_usage, lines 477-551: the totals over the items of the user and
\* the current day, zeros when there is none.
get_user_usage(table, user, day) ==
  LET items == ScanItems(table, user, day)
  IN [totalTokens |-> SumTokens(table, items),
      totalRequests |-> SumRequests(table, items),
      tokenLimit |-> DEFAULT_DAILY_TOKEN_LIMIT,
      requestLimit |-> DEFAULT_DAILY_REQUEST_LIMIT]

\* check_user_usage_limits, lines 554-571
check_user_usage_limits(table, user, day) ==
  LET info == get_user_usage(table, user, day)
      token_limit_exceeded == info.totalTokens >= info.tokenLimit
      request_limit_exceeded == info.totalRequests >= info.requestLimit
  IN [totalTokens |-> info.totalTokens, totalRequests |-> info.totalRequests,
      allowed |-> ~(token_limit_exceeded \/ request_limit_exceeded)]

\* A second passes.
Tick ==
  /\ uClock < MaxSeconds
  /\ uClock' = uClock + 1
  /\ UNCHANGED <<uDay, uTable, uServed, uUsage, outsideUsage>>

\* Midnight passes: get_current_period() gives the next day.
NextDay ==
  /\ uClock < MaxSeconds
  /\ uDay < MaxDays
  /\ uClock' = uClock + 1
  /\ uDay' = uDay + 1
  /\ UNCHANGED <<uTable, uServed, uUsage, outsideUsage>>

\* update_user_usage, lines 574-616, called by the handler (line 830) for a
\* request it has served: one put_item under the id of the current second;
\* when put_item raises the function returns False and nothing is recorded.
UpdateUsage ==
  /\ Len(uServed) < MaxRequests
  /\ \E user \in Users, tokens \in 1..MaxTokens, putOk \in BOOLEAN :
       IF putOk
       THEN /\ uTable' = PutItem(uTable, RecordId(user, uDay, uClock),
                                 [totalTokens |-> tokens, totalRequests |-> 1])
            /\ uServed' = Append(uServed, [user |-> user, day |-> uDay, tokens |-> tokens])
       ELSE UNCHANGED <<uTable, uServed>>
  /\ UNCHANGED <<uClock, uDay, uUsage, outsideUsage>>

\* The handler (line 661) checks the limits of the user of a request.
CheckLimits ==
  /\ \E user \in Users :
       uUsage' = [done |-> TRUE, user |-> user, day |-> uDay, after |-> Len(uServed)]
                 @@ check_user_usage_limits(uTable, user, uDay)
  /\ UNCHANGED <<uClock, uDay, uTable, uServed, outsideUsage>>

InitUsage == AllIdle

NextUsage ==
  \/ Tick
  \/ NextDay
  \/ UpdateUsage
  \/ CheckLimits

SpecUsage == InitUsage /\ [][NextUsage]_vars

\* The requests of a user recorded in a day, among the first n recorded
RecordedOf(user, day, n) ==
  SelectSeq(SubSeq(uServed, 1, n), LAMBDA r : r.user = user /\ r.day = day)

RECURSIVE TokensOf(_)
TokensOf(records) ==
  IF records = <<>> THEN 0 ELSE Head(records).tokens + TokensOf(Tail(records))

\* C26: the usage total the limit check reads for a user and a period counts
\* every served and recorded request exactly once: totalRequests is their
\* number and totalTokens the sum of their token counts, also for requests
\* recorded within the same second.
C26_EveryRequestCountedOnce ==
  uUsage.done =>
    LET recorded == RecordedOf(uUsage.user, uUsage.day, uUsage.after)
    IN /\ uUsage.totalRequests = Len(recorded)
       /\ uUsage.totalTokens = TokensOf(recorded)

\* --------------------------------------------------------------- blob keys
\* FAISS_INDEX_PREFIX, "faiss-indexes" in the three handlers
FAISS_INDEX_PREFIX == "faiss-indexes"

\* f"{FAISS_INDEX_PREFIX}/{database_id}/index.faiss" and .../metadata.pkl
BlobKeys(id) ==
  [index |-> <<FAISS_INDEX_PREFIX, id, "index.faiss">>,
   meta |-> <<FAISS_INDEX_PREFIX, id, "metadata.pkl">>]

\* embed-files, lines 149-150 and 192-193: the keys come from database_id as
\* the handler received it.
IngestKeys(id) == BlobKeys(id)

\* chat-bedrock lines 139-142 and chat-bedrock-tools lines 97-99:
\* database_id = database_id.strip() before the keys are built.
SearchKeys(id) == BlobKeys(Strip(id))

\* The databaseId strings the ingestion handler accepts: `all([...])` wants a
\* non-empty string.
DatabaseIds == SeqsUpTo(Chars, MaxIdLen) \ {<<>>}

\* embed-files save_faiss_index: both blobs of the collection are uploaded.
PersistCollection ==
  /\ \E id \in DatabaseIds :
       /\ (IngestKeys(id).index \in DOMAIN kStore
           \/ Cardinality(DOMAIN kStore) < 2 * MaxCollections)
       /\ kStore' = (IngestKeys(id).index :> id) @@ (IngestKeys(id).meta :> id) @@ kStore
  /\ UNCHANGED <<kLoad, outsideKeys>>

\* load_faiss_index of a chat handler: both blobs are fetched by the keys of
\* the stripped id; None when one of them is missing.
LoadForSearch ==
  /\ \E variant \in SearchVariants, id \in DatabaseIds :
       LET keys == SearchKeys(id)
           found == keys.index \in DOMAIN kStore /\ keys.meta \in DOMAIN kStore
       IN kLoad' = [done |-> TRUE, variant |-> variant, id |-> id, found |-> found,
                    indexOf |-> IF found THEN kStore[keys.index] ELSE <<>>,
                    metaOf |-> IF found THEN kStore[keys.meta] ELSE <<>>]
  /\ UNCHANGED <<kStore, outsideKeys>>

InitKeys == AllIdle

NextKeys ==
  \/ PersistCollection
  \/ LoadForSearch

SpecKeys == InitKeys /\ [][NextKeys]_vars

\* C29: ingestion and search derive the same blob keys from the same
\* collectionId: a search with an id string the ingestion persisted under
\* loads exactly the index and metadata blobs saved for that id.
C29_SearchLoadsWhatIngestionPersisted ==
  (/\ kLoad.done
   /\ IngestKeys(kLoad.id).index \in DOMAIN kStore
   /\ kStore[IngestKeys(kLoad.id).index] = kLoad.id) =>
    /\ kLoad.found
    /\ kLoad.indexOf = kLoad.id
    /\ kLoad.metaOf = kLoad.id

====
